---- MODULE Spec2Model ----
(***************************************************************************)
(* Model of jira-test: the regex pattern builder (src/matcher/regex.ts),   *)
(* the test-case matcher (src/matcher/index.ts) and the reconciliation of  *)
(* Jest results with Jira test cases (src/commands/run.ts).                *)
(*                                                                         *)
(* A string is a sequence of one-character strings, so that escaping,      *)
(* anchoring and joining are computed character by character.              *)
(***************************************************************************)
EXTENDS Integers, Sequences, FiniteSets, TLC

VARIABLES pc, titles, title, pattern,
          testCases, options, matchResult, error,
          jestResult, testCaseResults,
          name, matched

\* the full test name a pattern is tested against, and the result of the test
matchVars == <<name, matched>>

\* a top-level run: the command, the environment variables that are set, the
\* command-line options, the externally visible steps taken so far, the
\* returned exit code and the written report file
VARIABLES command, env, runOptions, trace, exitCode, report

runVars == <<command, env, runOptions, trace, exitCode, report>>

\* a tracker client: its configured API version, its memoized detected
\* version, the round trips it has made and the operations called on it
VARIABLES apiVersion, detectedApiVersion, requests, calls

clientVars == <<apiVersion, detectedApiVersion, requests, calls>>

\* the arguments of matchesPlatformFilter (its result is matched) and the
\* arguments and the result of extractLinkedIssueKeys
VARIABLES issueLabels, platformFilter, issueLinks, linkTypeName, issueKeys

collectorVars == <<issueLabels, platformFilter, issueLinks, linkTypeName, issueKeys>>

vars == <<pc, titles, title, pattern, testCases, options, matchResult, error,
          jestResult, testCaseResults, matchVars, runVars, clientVars, collectorVars>>

(***************************************************************************)
(* Bounds of the model                                                     *)
(***************************************************************************)
MaxTitleLen == 1
MaxTitles == 3
MaxCases == 4
MaxMapped == 3
MaxResults == 2
MaxMatchTitles == 2
MaxNameLen == 3
MaxEscapeLen == 2
MaxSpecialCases == 2
MaxLabels == 2
MaxLinks == 2
MaxReportResults == 3
MaxSelectCases == 2

\* characters the modelled titles are written with: a letter and three of
\* the regex special characters (the anchor, the alternation and the escape)
Alphabet == {"a", "$", "|", "\\"}

RECURSIVE SeqsUpTo(_, _)
SeqsUpTo(S, n) ==
  IF n = 0 THEN {<<>>}
  ELSE LET shorter == SeqsUpTo(S, n - 1)
       IN shorter \cup {Append(s, x) : s \in {t \in shorter : Len(t) = n - 1}, x \in S}

Range(s) == {s[i] : i \in 1..Len(s)}

\* the titles handed to the pattern builder
Titles == SeqsUpTo(Alphabet, MaxTitleLen)

\* the summaries / runner titles of the matcher and of reconciliation: they
\* differ in letter case, in trailing white space and in a special character
CaseTitles == {<<"a">>, <<"A">>, <<"a", " ">>, <<"a", "$">>}

(***************************************************************************)
(* src/matcher/regex.ts                                                    *)
(***************************************************************************)
\* the character class of escapeRegex: [.*+?^${}()|[\]\\]
SpecialChars == {".", "*", "+", "?", "^", "$", "{", "}", "(", ")", "|", "[", "]", "\\"}

\* a character class that lacks some of the special characters
RECURSIVE escapeRegexExcept(_, _)
escapeRegexExcept(str, missing) ==
  IF str = <<>> THEN <<>>
  ELSE (IF Head(str) \in SpecialChars \ missing THEN <<"\\", Head(str)>> ELSE <<Head(str)>>)
       \o escapeRegexExcept(Tail(str), missing)

escapeRegex_noDot(str) == escapeRegexExcept(str, {"."})
escapeRegex_noBackslash(str) == escapeRegexExcept(str, {"\\"})
escapeRegex_noParen(str) == escapeRegexExcept(str, {"(", ")"})

\* str.replace(/[.*+?^${}()|[\]\\]/g, '\\$&')
RECURSIVE escapeRegex(_)
escapeRegex(str) ==
  IF str = <<>> THEN <<>>
  ELSE (IF Head(str) \in SpecialChars THEN <<"\\", Head(str)>> ELSE <<Head(str)>>)
       \o escapeRegex(Tail(str))

\* a pattern anchored at both ends
createExactMatchPattern_bothAnchors(t) == <<"^">> \o escapeRegex(t) \o <<"$">>

\* mutant: a pattern without an anchor
createExactMatchPattern_noAnchor(t) == escapeRegex(t)

\* `${escaped}$`
createExactMatchPattern(t) == escapeRegex(t) \o <<"$">>

\* Array.prototype.join
RECURSIVE Join(_, _)
Join(parts, sep) ==
  IF parts = <<>> THEN <<>>
  ELSE IF Len(parts) = 1 THEN parts[1]
  ELSE parts[1] \o sep \o Join(Tail(parts), sep)

\* every title parenthesized, a single one included
createCombinedPattern_alwaysGrouped(ts) ==
  Join([i \in 1..Len(ts) |-> <<"(">> \o escapeRegex(ts[i]) \o <<"$", ")">>], <<"|">>)

\* mutant: the pattern of the first title alone
createCombinedPattern_firstOnly(ts) ==
  IF Len(ts) = 0 THEN <<>>
  ELSE createExactMatchPattern(ts[1])

createCombinedPattern(ts) ==
  IF Len(ts) = 0 THEN <<>>
  ELSE IF Len(ts) = 1 THEN createExactMatchPattern(ts[1])
  ELSE LET patterns == [i \in 1..Len(ts) |->
                          <<"(">> \o createExactMatchPattern(ts[i]) \o <<")">>]
       IN Join(patterns, <<"|">>)

\* new RegExp(pattern) succeeds: every unescaped parenthesis is balanced, a
\* backslash escapes a character, a character class is closed and every
\* quantifier has something to repeat.  An unescaped brace is read as the
\* literal character it is outside the forms {n}, {n,} and {n,m}.
RECURSIVE ClassCloses(_, _)
ClassCloses(p, i) ==
  IF i > Len(p) THEN 0
  ELSE IF p[i] = "\\" THEN ClassCloses(p, i + 2)
  ELSE IF p[i] = "]" THEN i
  ELSE ClassCloses(p, i + 1)

RECURSIVE ValidFrom(_, _, _, _)
ValidFrom(p, i, depth, prev) ==
  IF i > Len(p) THEN depth = 0
  ELSE IF p[i] = "\\" THEN i < Len(p) /\ ValidFrom(p, i + 2, depth, "atom")
  ELSE IF p[i] = "(" THEN ValidFrom(p, i + 1, depth + 1, "none")
  ELSE IF p[i] = ")" THEN depth > 0 /\ ValidFrom(p, i + 1, depth - 1, "atom")
  ELSE IF p[i] \in {"|", "^", "$"} THEN ValidFrom(p, i + 1, depth, "none")
  ELSE IF p[i] \in {"*", "+"} THEN prev = "atom" /\ ValidFrom(p, i + 1, depth, "quant")
  ELSE IF p[i] = "?" THEN prev \in {"atom", "quant"} /\
                          ValidFrom(p, i + 1, depth, IF prev = "atom" THEN "quant" ELSE "none")
  ELSE IF p[i] = "[" THEN ClassCloses(p, i + 1) > 0 /\
                          ValidFrom(p, ClassCloses(p, i + 1) + 1, depth, "atom")
  ELSE ValidFrom(p, i + 1, depth, "atom")

isValidRegex(p) == ValidFrom(p, 1, 0, "none")

\* regex.test(testString) for the patterns built of literals, escapes, '.',
\* the anchors, groups and alternation (quantifiers and character classes
\* are not interpreted): the set of positions of str at which a match of
\* p[i..j] that starts at position k can end
RECURSIVE ClosingParen(_, _, _)
ClosingParen(p, i, depth) ==
  IF i > Len(p) THEN 0
  ELSE IF p[i] = "\\" THEN ClosingParen(p, i + 2, depth)
  ELSE IF p[i] = "(" THEN ClosingParen(p, i + 1, depth + 1)
  ELSE IF p[i] = ")" THEN (IF depth = 0 THEN i ELSE ClosingParen(p, i + 1, depth - 1))
  ELSE ClosingParen(p, i + 1, depth)

RECURSIVE FirstTopBar(_, _, _, _)
FirstTopBar(p, i, j, depth) ==
  IF i > j THEN 0
  ELSE IF p[i] = "\\" THEN FirstTopBar(p, i + 2, j, depth)
  ELSE IF p[i] = "(" THEN FirstTopBar(p, i + 1, j, depth + 1)
  ELSE IF p[i] = ")" THEN FirstTopBar(p, i + 1, j, depth - 1)
  ELSE IF p[i] = "|" /\ depth = 0 THEN i
  ELSE FirstTopBar(p, i + 1, j, depth)

RECURSIVE MatchAlt(_, _, _, _, _)
RECURSIVE MatchSeq(_, _, _, _, _)
MatchAlt(p, i, j, str, k) ==
  LET bar == FirstTopBar(p, i, j, 0)
  IN IF bar = 0 THEN MatchSeq(p, i, j, str, k)
     ELSE MatchSeq(p, i, bar - 1, str, k) \cup MatchAlt(p, bar + 1, j, str, k)

MatchSeq(p, i, j, str, k) ==
  IF i > j THEN {k}
  ELSE IF p[i] = "\\"
  THEN IF k < Len(str) /\ str[k + 1] = p[i + 1]
       THEN MatchSeq(p, i + 2, j, str, k + 1) ELSE {}
  ELSE IF p[i] = "("
  THEN LET close == ClosingParen(p, i + 1, 0)
       IN UNION {MatchSeq(p, close + 1, j, str, k2) :
                   k2 \in MatchAlt(p, i + 1, close - 1, str, k)}
  ELSE IF p[i] = "$"
  THEN IF k = Len(str) THEN MatchSeq(p, i + 1, j, str, k) ELSE {}
  ELSE IF p[i] = "^"
  THEN IF k = 0 THEN MatchSeq(p, i + 1, j, str, k) ELSE {}
  ELSE IF p[i] = "."
  THEN IF k < Len(str) THEN MatchSeq(p, i + 1, j, str, k + 1) ELSE {}
  ELSE IF k < Len(str) /\ str[k + 1] = p[i]
       THEN MatchSeq(p, i + 1, j, str, k + 1) ELSE {}

\* new RegExp(pattern).test(testString): a match may start anywhere; a
\* pattern that does not compile gives false
testPattern(p, testString) ==
  IF ~isValidRegex(p) THEN FALSE
  ELSE \E k \in 0..Len(testString) : MatchAlt(p, 1, Len(p), testString, k) # {}

(***************************************************************************)
(* src/matcher/index.ts                                                    *)
(***************************************************************************)
MatchModes == {"title", "ticket-key", "summary"}

\* the jiraKey option: absent (or the empty string), or a ticket key
JiraKeys == {<<>>, <<"H", "-", "1">>}

\* tc.summary of every test case, in order
summaries(tcs) == [i \in 1..Len(tcs) |-> tcs[i].summary]

\* [...new Set(titles)]: a Set keeps the first insertion of each value
RECURSIVE SetInsertAll(_, _)
SetInsertAll(seen, rest) ==
  IF rest = <<>> THEN seen
  ELSE SetInsertAll(IF Head(rest) \in Range(seen) THEN seen ELSE Append(seen, Head(rest)),
                    Tail(rest))

\* the raw titles, duplicates kept
uniqueTitles_raw(ts) == ts

uniqueTitles(ts) == SetInsertAll(<<>>, ts)

\* counts.get(title) after the loop over titles
countOf(ts, t) == Cardinality({i \in 1..Len(ts) : ts[i] = t})

\* `Duplicate test title "${title}" found in ${count} Jira test cases. All matches will be run.`
DuplicateWarning(t, count) ==
  <<"Duplicate test title \"", t, "\" found in ", count,
    " Jira test cases. All matches will be run.">>

\* the warnings pushed while iterating the Map of counts (insertion order)
RECURSIVE warningsOver(_, _)
warningsOver(keys, ts) ==
  IF keys = <<>> THEN <<>>
  ELSE (IF countOf(ts, Head(keys)) > 1
        THEN <<DuplicateWarning(Head(keys), countOf(ts, Head(keys)))>>
        ELSE <<>>)
       \o warningsOver(Tail(keys), ts)

\* a warning pushed for every occurrence of a duplicated title
duplicateWarnings_perOccurrence(ts) == warningsOver(ts, ts)

duplicateWarnings(ts) ==
  IF Len(uniqueTitles(ts)) < Len(ts)
  THEN warningsOver(SetInsertAll(<<>>, ts), ts)
  ELSE <<>>

\* the outcome of a call: a returned MatchResult or a thrown Error, and the
\* caller's array as the call leaves it
Returned(r, arg) ==
  [threw |-> FALSE, error |-> <<>>, arg |-> arg,
   result |-> [returned |-> TRUE, pattern |-> r.pattern,
               testCases |-> r.testCases, warnings |-> r.warnings]]

Thrown(msg, arg) ==
  [threw |-> TRUE, error |-> msg, arg |-> arg,
   result |-> [returned |-> FALSE, pattern |-> <<>>, testCases |-> <<>>, warnings |-> <<>>]]

\* the test cases that are the first of their title
firstOfEachTitle(tcs) ==
  LET kept == SelectSeq([i \in 1..Len(tcs) |-> [tc |-> tcs[i], i |-> i]],
                        LAMBDA e : \A j \in 1..(e.i - 1) : tcs[j].summary # e.tc.summary)
  IN [k \in 1..Len(kept) |-> kept[k].tc]

\* the returned test cases filtered to the first of each title
createTestPattern_dedupedCases(tcs, opts) ==
  IF opts.mode = "ticket-key"
  THEN IF opts.jiraKey = <<>>
       THEN Thrown(<<"jiraKey is required for ticket-key mode">>, tcs)
       ELSE Returned([pattern |-> opts.jiraKey, testCases |-> tcs, warnings |-> <<>>], tcs)
  ELSE IF Len(tcs) = 0
  THEN Returned([pattern |-> <<>>, testCases |-> <<>>, warnings |-> <<>>], tcs)
  ELSE IF opts.mode # "title"
  THEN Thrown(<<"Unsupported match mode: ", opts.mode>>, tcs)
  ELSE LET ts == summaries(tcs)
           p == createCombinedPattern(uniqueTitles(ts))
       IN IF ~isValidRegex(p)
          THEN Thrown(<<"Generated pattern is not a valid regex">>, tcs)
          ELSE Returned([pattern |-> p, testCases |-> firstOfEachTitle(tcs),
                         warnings |-> duplicateWarnings(ts)], tcs)

\* an empty list treated as an error
createTestPattern_throwOnEmpty(tcs, opts) ==
  IF opts.mode = "ticket-key"
  THEN IF opts.jiraKey = <<>>
       THEN Thrown(<<"jiraKey is required for ticket-key mode">>, tcs)
       ELSE Returned([pattern |-> opts.jiraKey, testCases |-> tcs, warnings |-> <<>>], tcs)
  ELSE IF Len(tcs) = 0
  THEN Thrown(<<"No test cases">>, tcs)
  ELSE IF opts.mode # "title"
  THEN Thrown(<<"Unsupported match mode: ", opts.mode>>, tcs)
  ELSE LET ts == summaries(tcs)
           p == createCombinedPattern(uniqueTitles(ts))
       IN IF ~isValidRegex(p)
          THEN Thrown(<<"Generated pattern is not a valid regex">>, tcs)
          ELSE Returned([pattern |-> p, testCases |-> tcs,
                         warnings |-> duplicateWarnings(ts)], tcs)

\* the mode never validated: an unknown mode handled as title mode
createTestPattern_noModeCheck(tcs, opts) ==
  IF opts.mode = "ticket-key"
  THEN IF opts.jiraKey = <<>>
       THEN Thrown(<<"jiraKey is required for ticket-key mode">>, tcs)
       ELSE Returned([pattern |-> opts.jiraKey, testCases |-> tcs, warnings |-> <<>>], tcs)
  ELSE IF Len(tcs) = 0
  THEN Returned([pattern |-> <<>>, testCases |-> <<>>, warnings |-> <<>>], tcs)
  ELSE IF FALSE
  THEN Thrown(<<"Unsupported match mode: ", opts.mode>>, tcs)
  ELSE LET ts == summaries(tcs)
           p == createCombinedPattern(uniqueTitles(ts))
       IN IF ~isValidRegex(p)
          THEN Thrown(<<"Generated pattern is not a valid regex">>, tcs)
          ELSE Returned([pattern |-> p, testCases |-> tcs,
                         warnings |-> duplicateWarnings(ts)], tcs)

createTestPattern(tcs, opts) ==
  IF opts.mode = "ticket-key"
  THEN IF opts.jiraKey = <<>>
       THEN Thrown(<<"jiraKey is required for ticket-key mode">>, tcs)
       ELSE Returned([pattern |-> opts.jiraKey, testCases |-> tcs, warnings |-> <<>>], tcs)
  ELSE IF Len(tcs) = 0
  THEN Returned([pattern |-> <<>>, testCases |-> <<>>, warnings |-> <<>>], tcs)
  ELSE IF opts.mode # "title"
  THEN Thrown(<<"Unsupported match mode: ", opts.mode>>, tcs)
  ELSE LET ts == summaries(tcs)
           p == createCombinedPattern(uniqueTitles(ts))
       IN IF ~isValidRegex(p)
          THEN Thrown(<<"Generated pattern is not a valid regex">>, tcs)
          ELSE Returned([pattern |-> p, testCases |-> tcs,
                         warnings |-> duplicateWarnings(ts)], tcs)

(***************************************************************************)
(* src/commands/run.ts: reconciliation                                     *)
(***************************************************************************)
Lower(str) == [i \in 1..Len(str) |-> IF str[i] = "A" THEN "a" ELSE str[i]]

\* titles compared without regard to letter case
titleMatches_ignoreCase(r, testCase) == Lower(r.title) = Lower(testCase.summary)

\* (r) => r.title === testCase.summary
titleMatches(r, testCase) == r.title = testCase.summary

\* the last element that satisfies the predicate
RECURSIVE find_last(_, _)
find_last(results, testCase) ==
  IF results = <<>> THEN <<>>
  ELSE IF titleMatches(results[Len(results)], testCase) THEN <<results[Len(results)]>>
  ELSE find_last(SubSeq(results, 1, Len(results) - 1), testCase)

\* Array.prototype.find: the first element that satisfies the predicate, as
\* a one-element sequence, or the empty sequence for undefined
RECURSIVE find(_, _)
find(results, testCase) ==
  IF results = <<>> THEN <<>>
  ELSE IF titleMatches(Head(results), testCase) THEN <<Head(results)>>
  ELSE find(Tail(results), testCase)

statusOf(matchingResult) ==
  IF matchingResult = <<>> THEN "NOT_FOUND"
  ELSE IF matchingResult[1].status = "passed" THEN "PASS"
  ELSE "FAIL"

\* one record per distinct summary instead of one per test case
mapResultsToTestCases_perTitle(tcs, jr) ==
  LET firsts == firstOfEachTitle(tcs)
  IN [k \in 1..Len(firsts) |->
        [testCase |-> firsts[k],
         status |-> statusOf(find(jr.testResults, firsts[k])),
         jestResult |-> find(jr.testResults, firsts[k])]]

\* testCases.map(...): locationResults is not passed
mapResultsToTestCases(tcs, jr) ==
  [i \in 1..Len(tcs) |->
     LET matchingResult == find(jr.testResults, tcs[i])
     IN [testCase |-> tcs[i],
         status |-> statusOf(matchingResult),
         jestResult |-> matchingResult]]

(***************************************************************************)
(* Inputs                                                                  *)
(***************************************************************************)
\* the collected test cases: issue i of the list has its own key
TestCaseLists(max) ==
  UNION {{[i \in 1..n |-> [jiraKey |-> <<"TC-", i>>, summary |-> f[i]]] :
            f \in [1..n -> CaseTitles]} : n \in 0..max}

TestCaseListsOf(T, max) ==
  UNION {{[i \in 1..n |-> [jiraKey |-> <<"TC-", i>>, summary |-> f[i]]] :
            f \in [1..n -> T]} : n \in 0..max}

\* summaries written with the special characters of a regular expression
SpecialTitles ==
  {<<c>> : c \in SpecialChars} \cup {<<"a">>, <<"(", "a", "|", "b", ")", "*">>}

\* the titles and the characters of the full names of the match tests
MatchTitles == {<<>>, <<"a">>, <<"a", "b">>, <<".">>, <<"|">>, <<"a", ".">>}
NameAlphabet == {"a", "b", ".", "|"}

\* the characters escapeRegex is applied to: every special character, a
\* letter and a blank
EscapeAlphabet == SpecialChars \cup {"a", " "}

\* the assertion results parsed by runJest: the status is 'passed' or
\* 'failed', and the duration tells the entries of one run apart
TestResultLists ==
  UNION {{[i \in 1..n |-> [title |-> f[i][1], status |-> f[i][2], duration |-> i]] :
            f \in [1..n -> CaseTitles \X {"passed", "failed"}]} : n \in 0..MaxResults}

(***************************************************************************)
(* Values of the variables an operation has not yet set                    *)
(***************************************************************************)
NoOptions == [mode |-> "", jiraKey |-> <<>>]
NoMatchResult == [returned |-> FALSE, pattern |-> <<>>, testCases |-> <<>>, warnings |-> <<>>]
NoJestResult == [testResults |-> <<>>]
MatchIdle == name = <<>> /\ matched = FALSE
NoExit == -1
NoRunOptions ==
  [platform |-> "", linkType |-> "", mode |-> "", dry |-> FALSE,
   locate |-> FALSE, comment |-> FALSE, file |-> ""]
RunIdle ==
  /\ command = ""
  /\ env = {}
  /\ runOptions = NoRunOptions
  /\ trace = <<>>
  /\ exitCode = NoExit
  /\ report = <<>>
ClientIdle ==
  /\ apiVersion = ""
  /\ detectedApiVersion = "null"
  /\ requests = <<>>
  /\ calls = <<>>
CollectorIdle ==
  /\ issueLabels = <<>>
  /\ platformFilter = ""
  /\ issueLinks = <<>>
  /\ linkTypeName = ""
  /\ issueKeys = <<>>

(***************************************************************************)
(* The pattern builder applied to bounded lists of titles                  *)
(***************************************************************************)
InitRegex ==
  /\ pc = "start"
  /\ titles \in SeqsUpTo(Titles, MaxTitles)
  /\ title = <<>>
  /\ pattern = <<>>
  /\ testCases = <<>>
  /\ options = NoOptions
  /\ matchResult = NoMatchResult
  /\ error = <<>>
  /\ jestResult = NoJestResult
  /\ testCaseResults = <<>>
  /\ MatchIdle
  /\ RunIdle
  /\ CollectorIdle
  /\ ClientIdle

CallCreateCombinedPattern ==
  /\ pc = "start"
  /\ pattern' = createCombinedPattern(titles)
  /\ pc' = "combined"
  /\ UNCHANGED <<titles, title, testCases, options, matchResult, error,
                 jestResult, testCaseResults, matchVars, runVars, clientVars, collectorVars>>

CallCreateExactMatchPattern ==
  /\ pc = "start"
  /\ \E i \in 1..Len(titles) :
       /\ title' = titles[i]
       /\ pattern' = createExactMatchPattern(titles[i])
  /\ pc' = "exact"
  /\ UNCHANGED <<titles, testCases, options, matchResult, error,
                 jestResult, testCaseResults, matchVars, runVars, clientVars, collectorVars>>

NextRegex == CallCreateCombinedPattern \/ CallCreateExactMatchPattern

SpecRegex == InitRegex /\ [][NextRegex]_vars

(***************************************************************************)
(* The matcher applied to bounded lists of test cases, in every mode       *)
(***************************************************************************)
Init ==
  /\ pc = "start"
  /\ testCases \in TestCaseLists(MaxCases)
  /\ options \in [mode : MatchModes, jiraKey : JiraKeys]
  /\ matchResult = NoMatchResult
  /\ error = <<>>
  /\ titles = <<>>
  /\ title = <<>>
  /\ pattern = <<>>
  /\ jestResult = NoJestResult
  /\ testCaseResults = <<>>
  /\ MatchIdle
  /\ RunIdle
  /\ CollectorIdle
  /\ ClientIdle

CallCreateTestPattern ==
  /\ pc = "start"
  /\ LET r == createTestPattern(testCases, options)
     IN /\ matchResult' = r.result
        /\ error' = r.error
        /\ testCases' = r.arg
        /\ pc' = IF r.threw THEN "threw" ELSE "matched"
  /\ UNCHANGED <<titles, title, pattern, options, jestResult, testCaseResults,
                 matchVars, runVars, clientVars, collectorVars>>

Next == CallCreateTestPattern

Spec == Init /\ [][Next]_vars

(***************************************************************************)
(* Reconciliation applied to bounded test-case lists and runner results    *)
(***************************************************************************)
InitReconcile ==
  /\ pc = "start"
  /\ testCases \in TestCaseLists(MaxMapped)
  /\ jestResult \in [testResults : TestResultLists]
  /\ testCaseResults = <<>>
  /\ options = NoOptions
  /\ matchResult = NoMatchResult
  /\ error = <<>>
  /\ titles = <<>>
  /\ title = <<>>
  /\ pattern = <<>>
  /\ MatchIdle
  /\ RunIdle
  /\ CollectorIdle
  /\ ClientIdle

CallMapResultsToTestCases ==
  /\ pc = "start"
  /\ testCaseResults' = mapResultsToTestCases(testCases, jestResult)
  /\ pc' = "mapped"
  /\ UNCHANGED <<titles, title, pattern, testCases, options, matchResult, error,
                 jestResult, matchVars, runVars, clientVars, collectorVars>>

NextReconcile == CallMapResultsToTestCases

SpecReconcile == InitReconcile /\ [][NextReconcile]_vars

(***************************************************************************)
(* The built patterns tested against full test names                       *)
(***************************************************************************)
InitMatch ==
  /\ pc = "start"
  /\ titles \in SeqsUpTo(MatchTitles, MaxMatchTitles)
  /\ name \in SeqsUpTo(NameAlphabet, MaxNameLen)
  /\ matched = FALSE
  /\ RunIdle
  /\ CollectorIdle
  /\ ClientIdle
  /\ title = <<>>
  /\ pattern = <<>>
  /\ testCases = <<>>
  /\ options = NoOptions
  /\ matchResult = NoMatchResult
  /\ error = <<>>
  /\ jestResult = NoJestResult
  /\ testCaseResults = <<>>

TestExactMatchPattern ==
  /\ pc = "start"
  /\ \E i \in 1..Len(titles) :
       /\ title' = titles[i]
       /\ pattern' = createExactMatchPattern(titles[i])
       /\ matched' = testPattern(createExactMatchPattern(titles[i]), name)
  /\ pc' = "testedExact"
  /\ UNCHANGED <<titles, name, testCases, options, matchResult, error,
                 jestResult, testCaseResults, runVars, clientVars, collectorVars>>

TestCombinedPattern ==
  /\ pc = "start"
  /\ pattern' = createCombinedPattern(titles)
  /\ matched' = testPattern(createCombinedPattern(titles), name)
  /\ pc' = "testedCombined"
  /\ UNCHANGED <<titles, title, name, testCases, options, matchResult, error,
                 jestResult, testCaseResults, runVars, clientVars, collectorVars>>

NextMatch == TestExactMatchPattern \/ TestCombinedPattern

SpecMatch == InitMatch /\ [][NextMatch]_vars

(***************************************************************************)
(* escapeRegex applied to bounded strings of every special character       *)
(***************************************************************************)
InitEscape ==
  /\ pc = "start"
  /\ title \in SeqsUpTo(EscapeAlphabet, MaxEscapeLen)
  /\ pattern = <<>>
  /\ titles = <<>>
  /\ testCases = <<>>
  /\ options = NoOptions
  /\ matchResult = NoMatchResult
  /\ error = <<>>
  /\ jestResult = NoJestResult
  /\ testCaseResults = <<>>
  /\ MatchIdle
  /\ RunIdle
  /\ CollectorIdle
  /\ ClientIdle

CallEscapeRegex ==
  /\ pc = "start"
  /\ pattern' = escapeRegex(title)
  /\ pc' = "escaped"
  /\ UNCHANGED <<titles, title, testCases, options, matchResult, error,
                 jestResult, testCaseResults, matchVars, runVars, clientVars, collectorVars>>

NextEscape == CallEscapeRegex

SpecEscape == InitEscape /\ [][NextEscape]_vars

(***************************************************************************)
(* The matcher in title mode, applied to summaries of special characters   *)
(***************************************************************************)
InitTitleMode ==
  /\ pc = "start"
  /\ testCases \in TestCaseListsOf(SpecialTitles, MaxSpecialCases)
  /\ options \in [mode : {"title"}, jiraKey : JiraKeys]
  /\ matchResult = NoMatchResult
  /\ error = <<>>
  /\ titles = <<>>
  /\ title = <<>>
  /\ pattern = <<>>
  /\ jestResult = NoJestResult
  /\ testCaseResults = <<>>
  /\ MatchIdle
  /\ RunIdle
  /\ CollectorIdle
  /\ ClientIdle

NextTitleMode == CallCreateTestPattern

SpecTitleMode == InitTitleMode /\ [][NextTitleMode]_vars

(***************************************************************************)
(* The title-mode pattern of a collected list handed to the runner, which  *)
(* selects the tests whose full name the pattern matches                   *)
(***************************************************************************)
\* the summaries of the collected test cases
SelectTitles == {<<"a">>, <<"a", "b">>, <<".">>, <<"|">>}

\* the collected list is not empty: runCommand returns before the matcher
\* when it is
InitSelect ==
  /\ pc = "start"
  /\ testCases \in TestCaseListsOf(SelectTitles, MaxSelectCases) \ {<<>>}
  /\ options = [mode |-> "title", jiraKey |-> <<>>]
  /\ name \in SeqsUpTo(NameAlphabet, MaxNameLen)
  /\ matched = FALSE
  /\ matchResult = NoMatchResult
  /\ error = <<>>
  /\ titles = <<>>
  /\ title = <<>>
  /\ pattern = <<>>
  /\ jestResult = NoJestResult
  /\ testCaseResults = <<>>
  /\ RunIdle
  /\ CollectorIdle
  /\ ClientIdle

\* runJest hands matchResult.pattern to --testNamePattern; the runner runs
\* the test named name when the pattern matches that name
SelectTest ==
  /\ pc = "matched"
  /\ pattern' = matchResult.pattern
  /\ matched' = testPattern(matchResult.pattern, name)
  /\ pc' = "selected"
  /\ UNCHANGED <<titles, title, name, testCases, options, matchResult, error,
                 jestResult, testCaseResults, runVars, clientVars, collectorVars>>

NextSelect == CallCreateTestPattern \/ SelectTest

SpecSelect == InitSelect /\ [][NextSelect]_vars

(***************************************************************************)
(* A top-level run: cli.ts, config.ts, jira/collector.ts, runner/jest.ts,  *)
(* reporter/json.ts, commands/run.ts and commands/run-file.ts              *)
(***************************************************************************)
MaxRunCases == 2
MaxRunResults == 1

EXIT_CODES == [SUCCESS |-> 0, TEST_FAILURE |-> 1, CONFIG_ERROR |-> 2, JIRA_ERROR |-> 3]

UpperCaseLetters == "ABCDEFGHIJKLMNOPQRSTUVWXYZ"
LowerCaseLetters == "abcdefghijklmnopqrstuvwxyz"

\* the character c in lower case
toLowerCaseChar(c) ==
  IF \E i \in 1..26 : SubSeq(UpperCaseLetters, i, i) = c
  THEN LET i == CHOOSE i \in 1..26 : SubSeq(UpperCaseLetters, i, i) = c
       IN SubSeq(LowerCaseLetters, i, i)
  ELSE c

\* the string s in lower case, character by character
RECURSIVE toLowerCaseChars(_)
toLowerCaseChars(s) ==
  IF Len(s) = 0 THEN ""
  ELSE toLowerCaseChar(SubSeq(s, 1, 1)) \o toLowerCaseChars(SubSeq(s, 2, Len(s)))

\* the platform values, labels and link type names of the model
Words ==
  {"", "all", "web", "mobile", "WEB", "ios",
   "ui", "my-platform:web", "platform:web", "PLATFORM:WEB", "Platform:Mobile",
   "platform:ios",
   "Test", "tests", "TESTS", "Is Tested By", "is tested by",
   "Blocks", "blocks", "is blocked by", "relates"}

\* the lower case of every word, computed once
LowerCased == [s \in Words |-> toLowerCaseChars(s)]

\* String.prototype.toLowerCase
toLowerCase(s) == IF s \in Words THEN LowerCased[s] ELSE toLowerCaseChars(s)

\* String.prototype.startsWith
startsWith(s, prefix) ==
  Len(s) >= Len(prefix) /\ SubSeq(s, 1, Len(prefix)) = prefix

\* parsePlatform: the normalized platform, or a thrown Error
parsePlatform(value) ==
  LET normalized == toLowerCase(value)
  IN IF normalized \in {"web", "mobile", "all"}
     THEN [threw |-> FALSE, platform |-> normalized]
     ELSE [threw |-> TRUE, platform |-> ""]

\* loadAuth: basic authentication when the e-mail and the API token are both
\* set, else the personal access token, else a ConfigError
loadAuth(e) ==
  IF "JIRA_EMAIL" \in e /\ "JIRA_API_TOKEN" \in e THEN [threw |-> FALSE, type |-> "basic"]
  ELSE IF "JIRA_PAT" \in e THEN [threw |-> FALSE, type |-> "pat"]
  ELSE [threw |-> TRUE, type |-> ""]

\* loadConfig: a ConfigError without JIRA_BASE_URL or without authentication;
\* the API version of the configuration is always 'auto'
loadConfig(e) ==
  IF "JIRA_BASE_URL" \notin e
  THEN [threw |-> TRUE, error |-> <<"ConfigError", "JIRA_BASE_URL environment variable is required">>,
        auth |-> "", apiVersion |-> ""]
  ELSE IF loadAuth(e).threw
  THEN [threw |-> TRUE, error |-> <<"ConfigError", "Jira authentication not configured">>,
        auth |-> "", apiVersion |-> ""]
  ELSE [threw |-> FALSE, error |-> <<>>, auth |-> loadAuth(e).type, apiVersion |-> "auto"]

\* l.toLowerCase().startsWith('platform:')
startsWithPlatform(l) == startsWith(toLowerCase(l), "platform:")

\* mutant: the expected label is compared with the letter case kept
matchesPlatformFilter_caseSensitive(labels, platform) ==
  IF platform = "all" THEN TRUE
  ELSE IF \A i \in 1..Len(labels) : ~startsWithPlatform(labels[i]) THEN TRUE
  ELSE \E i \in 1..Len(labels) : labels[i] = "platform:" \o platform

matchesPlatformFilter(labels, platform) ==
  IF platform = "all" THEN TRUE
  ELSE IF \A i \in 1..Len(labels) : ~startsWithPlatform(labels[i]) THEN TRUE
  ELSE \E i \in 1..Len(labels) : toLowerCase(labels[i]) = "platform:" \o platform

\* mutant: the outward issue of a link comes before its inward issue
RECURSIVE extractLinkedIssueKeys_outwardFirst(_, _)
extractLinkedIssueKeys_outwardFirst(links, linkType) ==
  IF links = <<>> THEN <<>>
  ELSE LET link == Head(links)
           matches == \/ toLowerCase(link.type.name) = toLowerCase(linkType)
                      \/ toLowerCase(link.type.inward) = toLowerCase(linkType)
                      \/ toLowerCase(link.type.outward) = toLowerCase(linkType)
       IN (IF matches THEN link.outwardIssue \o link.inwardIssue ELSE <<>>)
          \o extractLinkedIssueKeys_outwardFirst(Tail(links), linkType)

\* the keys of the inward and the outward issue of every link whose type
\* name, inward name or outward name is the link type, in link order
RECURSIVE extractLinkedIssueKeys(_, _)
extractLinkedIssueKeys(links, linkType) ==
  IF links = <<>> THEN <<>>
  ELSE LET link == Head(links)
           matches == \/ toLowerCase(link.type.name) = toLowerCase(linkType)
                      \/ toLowerCase(link.type.inward) = toLowerCase(linkType)
                      \/ toLowerCase(link.type.outward) = toLowerCase(linkType)
       IN (IF matches THEN link.inwardIssue \o link.outwardIssue ELSE <<>>)
          \o extractLinkedIssueKeys(Tail(links), linkType)

\* one step of a run that is visible outside the process
Event(op) == [op |-> op, key |-> <<>>, failed |-> FALSE]
FailedEvent(op) == [op |-> op, key |-> <<>>, failed |-> TRUE]
CommentEvent(key, failed) == [op |-> "addComment", key |-> key, failed |-> failed]

\* the issues of a response that pass the platform filter, as test cases
filterTestCases(issues, platform) ==
  LET kept == SelectSeq(issues, LAMBDA issue : matchesPlatformFilter(issue.labels, platform))
  IN [i \in 1..Len(kept) |-> [jiraKey |-> kept[i].key, summary |-> kept[i].summary]]

\* linkedIssueMap.get(key) for every key, the keys without an issue skipped
RECURSIVE linkedIssuesOf(_, _)
linkedIssuesOf(keys, issues) ==
  IF keys = <<>> THEN <<>>
  ELSE LET found == SelectSeq(issues, LAMBDA issue : issue.key = Head(keys))
       IN (IF found = <<>> THEN <<>> ELSE <<found[Len(found)]>>)
          \o linkedIssuesOf(Tail(keys), issues)

\* collectTestCases against a tracker that answers getIssue with issue and
\* getIssues with search: the test cases, or the error of the failed read,
\* and the client operations called
collectTestCases(issue, search, opts) ==
  LET linkedIssueKeys == extractLinkedIssueKeys(issue.issuelinks, opts.linkType)
      fromSubtasks == filterTestCases(issue.subtasks, opts.platform)
      fromLinks == filterTestCases(linkedIssuesOf(linkedIssueKeys, search.issues), opts.platform)
  IN IF issue.outcome # "ok"
     THEN [threw |-> TRUE, error |-> <<issue.outcome>>, testCases |-> <<>>,
           ops |-> <<FailedEvent("getIssue")>>]
     ELSE IF linkedIssueKeys = <<>>
     THEN [threw |-> FALSE, error |-> <<>>, testCases |-> fromSubtasks,
           ops |-> <<Event("getIssue")>>]
     ELSE IF search.outcome # "ok"
     THEN [threw |-> TRUE, error |-> <<search.outcome>>, testCases |-> <<>>,
           ops |-> <<Event("getIssue"), FailedEvent("getIssues")>>]
     ELSE [threw |-> FALSE, error |-> <<>>, testCases |-> fromSubtasks \o fromLinks,
           ops |-> <<Event("getIssue"), Event("getIssues")>>]

\* the summary of a runner result, as Jest counts the assertions it reports
summaryOf(results) ==
  [total |-> Len(results),
   passed |-> Cardinality({i \in 1..Len(results) : results[i].status = "passed"}),
   failed |-> Cardinality({i \in 1..Len(results) : results[i].status # "passed"})]

createDryRunResult == [testResults |-> <<>>, summary |-> [total |-> 0, passed |-> 0, failed |-> 0]]

countStatus(results, status) ==
  Cardinality({i \in 1..Len(results) : results[i].status = status})

\* a report whose overall result is 'pass' when nothing failed, tests or not
generateReport_passWithoutTests(opts) ==
  LET results == opts.testCaseResults
      failed == countStatus(results, "FAIL")
      errors == countStatus(results, "ERROR")
  IN [testCases |-> [i \in 1..Len(results) |->
                       [jiraKey |-> results[i].testCase.jiraKey,
                        summary |-> results[i].testCase.summary,
                        status |-> results[i].status,
                        matchedTestCount |-> IF results[i].jestResult # <<>> THEN 1 ELSE 0]],
      summary |-> [total |-> Len(results),
                   passed |-> countStatus(results, "PASS"),
                   failed |-> failed,
                   notFound |-> countStatus(results, "NOT_FOUND"),
                   errors |-> errors],
      overallResult |-> IF failed > 0 \/ errors > 0 THEN "fail" ELSE "pass",
      matchMode |-> opts.matchMode,
      isDryRun |-> opts.isDryRun]

\* mutant: a test case without a test makes the overall result 'fail'
generateReport_notFoundFails(opts) ==
  LET results == opts.testCaseResults
      failed == countStatus(results, "FAIL")
      errors == countStatus(results, "ERROR")
      notFound == countStatus(results, "NOT_FOUND")
  IN [testCases |-> [i \in 1..Len(results) |->
                       [jiraKey |-> results[i].testCase.jiraKey,
                        summary |-> results[i].testCase.summary,
                        status |-> results[i].status,
                        matchedTestCount |-> IF results[i].jestResult # <<>> THEN 1 ELSE 0]],
      summary |-> [total |-> Len(results),
                   passed |-> countStatus(results, "PASS"),
                   failed |-> failed,
                   notFound |-> notFound,
                   errors |-> errors],
      overallResult |-> IF Len(results) = 0 THEN "no_tests"
                        ELSE IF failed > 0 \/ errors > 0 \/ notFound > 0 THEN "fail"
                        ELSE "pass",
      matchMode |-> opts.matchMode,
      isDryRun |-> opts.isDryRun]

generateReport(opts) ==
  LET results == opts.testCaseResults
      failed == countStatus(results, "FAIL")
      errors == countStatus(results, "ERROR")
  IN [testCases |-> [i \in 1..Len(results) |->
                       [jiraKey |-> results[i].testCase.jiraKey,
                        summary |-> results[i].testCase.summary,
                        status |-> results[i].status,
                        matchedTestCount |-> IF results[i].jestResult # <<>> THEN 1 ELSE 0]],
      summary |-> [total |-> Len(results),
                   passed |-> countStatus(results, "PASS"),
                   failed |-> failed,
                   notFound |-> countStatus(results, "NOT_FOUND"),
                   errors |-> errors],
      overallResult |-> IF Len(results) = 0 THEN "no_tests"
                        ELSE IF failed > 0 \/ errors > 0 THEN "fail"
                        ELSE "pass",
      matchMode |-> opts.matchMode,
      isDryRun |-> opts.isDryRun]

\* the dry-run results of runCommand: every test case NOT_FOUND
dryRunResults(tcs) ==
  [i \in 1..Len(tcs) |-> [testCase |-> tcs[i], status |-> "NOT_FOUND", jestResult |-> <<>>]]

\* the reconciliation written out in runFileCommand
runFileResults(tcs, jr) ==
  [i \in 1..Len(tcs) |->
     LET matchingResult == find(jr.testResults, tcs[i])
     IN [testCase |-> tcs[i],
         status |-> IF matchingResult = <<>> THEN "NOT_FOUND"
                    ELSE IF matchingResult[1].status = "passed" THEN "PASS"
                    ELSE "FAIL",
         jestResult |-> matchingResult]]

\* a test that was not found counted as a failure
hasFailures_notFound(results) ==
  \E i \in 1..Len(results) : results[i].status # "PASS"

hasFailures(results) ==
  \E i \in 1..Len(results) : results[i].status = "FAIL" \/ results[i].status = "ERROR"

\* the issues postJiraComments comments on: every PASS in order, then the
\* parent ticket
commentKeys(parentKey, results) ==
  LET passes == SelectSeq(results, LAMBDA r : r.status = "PASS")
  IN [i \in 1..Len(passes) |-> passes[i].testCase.jiraKey] \o <<parentKey>>

(***************************************************************************)
(* Inputs of a run                                                         *)
(***************************************************************************)
\* the ticket given on the command line or found in the test file
ParentKey == <<"H", "-", "1">>

RunTitles == {<<"a">>, <<"b">>}

Environments ==
  {{"JIRA_BASE_URL", "JIRA_EMAIL", "JIRA_API_TOKEN"},
   {"JIRA_BASE_URL", "JIRA_PAT"},
   {"JIRA_BASE_URL", "JIRA_EMAIL"},
   {"JIRA_EMAIL", "JIRA_API_TOKEN", "JIRA_PAT"}}

PlatformValues == {"all", "WEB", "ios"}

\* the options of the run command, and those runFileCommand fixes
RunCommandOptions ==
  [platform : PlatformValues, linkType : {"is tested by"}, mode : MatchModes,
   dry : BOOLEAN, locate : BOOLEAN, comment : BOOLEAN, file : {"none"}]

RunFileOptions ==
  [platform : {"all"}, linkType : {"is tested by"}, mode : {"ticket-key"},
   dry : BOOLEAN, locate : {FALSE}, comment : BOOLEAN,
   file : {"missing", "no-ticket", "ticket"}]

\* the CLI defaults of the run command, --dry aside
CliDefaults(opts) ==
  /\ opts.platform = "all"
  /\ opts.linkType = "is tested by"
  /\ opts.mode = "ticket-key"
  /\ opts.locate = FALSE
  /\ opts.comment = TRUE

LabelLists == {<<>>, <<"Platform:Mobile">>}

\* the subtasks of the parent issue
SubtaskLists ==
  UNION {{[i \in 1..n |-> [key |-> <<"TC-", i>>, summary |-> f[i][1], labels |-> f[i][2]]] :
            f \in [1..n -> RunTitles \X LabelLists]} : n \in 0..MaxRunCases}

TestedByLink ==
  [type |-> [name |-> "Test", inward |-> "Is Tested By", outward |-> "tests"],
   inwardIssue |-> << <<"LINK-", 1>> >>, outwardIssue |-> <<>>]

BlocksLink ==
  [type |-> [name |-> "Blocks", inward |-> "is blocked by", outward |-> "blocks"],
   inwardIssue |-> <<>>, outwardIssue |-> << <<"LINK-", 2>> >>]

IssueLinkLists == {<<>>, <<TestedByLink>>, <<BlocksLink>>}

\* what the tracker answers to getIssue: the issue, an HTTP error status
\* (JiraClientError) or a failed fetch (any other Error)
IssueResponses ==
  [outcome : {"ok"}, subtasks : SubtaskLists, issuelinks : IssueLinkLists]
    \cup [outcome : {"JiraClientError", "Error"}, subtasks : {<<>>}, issuelinks : {<<>>}]

\* what the tracker answers to getIssues
SearchResponses ==
  [outcome : {"ok"},
   issues : {<<>>} \cup {<<[key |-> <<"LINK-", 1>>, summary |-> s, labels |-> <<>>]>> : s \in RunTitles}]
    \cup [outcome : {"JiraClientError", "Error"}, issues : {<<>>}]

\* the assertion results of one runner invocation
RunnerResultLists ==
  UNION {{[i \in 1..n |-> [title |-> f[i][1], status |-> f[i][2], duration |-> i]] :
            f \in [1..n -> RunTitles \X {"passed", "failed"}]} : n \in 0..MaxRunResults}

(***************************************************************************)
(* The steps of runCommand and runFileCommand.  The report path is taken   *)
(* to be writable: fs.promises.writeFile does not reject.                  *)
(***************************************************************************)
InitRun ==
  /\ pc = "start"
  /\ \/ command = "run" /\ runOptions \in RunCommandOptions
     \/ command = "run-file" /\ runOptions \in RunFileOptions
  /\ env \in Environments
  /\ trace = <<>>
  /\ exitCode = NoExit
  /\ report = <<>>
  /\ testCases = <<>>
  /\ options = NoOptions
  /\ matchResult = NoMatchResult
  /\ error = <<>>
  /\ titles = <<>>
  /\ title = <<>>
  /\ pattern = <<>>
  /\ jestResult = NoJestResult
  /\ testCaseResults = <<>>
  /\ MatchIdle
  /\ ClientIdle
  /\ CollectorIdle

\* the run returns code with the error it caught
Return(code, err) ==
  /\ pc' = "done"
  /\ exitCode' = code
  /\ error' = err

\* every caught error reported as a configuration error
catchExitCode_generic(err) == EXIT_CODES.CONFIG_ERROR

\* the exit code of the catch block of both commands
catchExitCode(err) ==
  IF err[1] = "ConfigError" THEN EXIT_CODES.CONFIG_ERROR
  ELSE IF err[1] = "JiraClientError" THEN EXIT_CODES.JIRA_ERROR
  ELSE EXIT_CODES.CONFIG_ERROR

\* runCommand: the platform option is validated first
ParsePlatform ==
  /\ pc = "start"
  /\ command = "run"
  /\ IF parsePlatform(runOptions.platform).threw
     THEN Return(EXIT_CODES.CONFIG_ERROR, <<"Error", "Invalid platform">>)
     ELSE pc' = "loadConfig" /\ UNCHANGED <<exitCode, error>>
  /\ UNCHANGED <<titles, title, pattern, testCases, options, matchResult,
                 jestResult, testCaseResults, matchVars, command, env,
                 runOptions, trace, report, clientVars, collectorVars>>

\* runFileCommand: the test file exists and names a ticket
CheckTestFile ==
  /\ pc = "start"
  /\ command = "run-file"
  /\ IF runOptions.file = "missing"
     THEN Return(EXIT_CODES.CONFIG_ERROR, <<"Error", "File not found">>)
     ELSE IF runOptions.file = "no-ticket"
     THEN Return(EXIT_CODES.CONFIG_ERROR, <<"Error", "No Jira ticket found in test file">>)
     ELSE pc' = "runJest" /\ UNCHANGED <<exitCode, error>>
  /\ UNCHANGED <<titles, title, pattern, testCases, options, matchResult,
                 jestResult, testCaseResults, matchVars, command, env,
                 runOptions, trace, report, clientVars, collectorVars>>

\* runFileCommand: runJest on the file with the ticket key as pattern; with
\* dryRun the runner is not spawned and the result is createDryRunResult
RunFileRunJest ==
  /\ pc = "runJest"
  /\ command = "run-file"
  /\ pattern' = ParentKey
  /\ IF runOptions.dry
     THEN jestResult' = createDryRunResult /\ trace' = trace
     ELSE /\ \E results \in RunnerResultLists :
               jestResult' = [testResults |-> results, summary |-> summaryOf(results)]
          /\ trace' = Append(trace, Event("runner"))
  /\ pc' = "loadConfig"
  /\ UNCHANGED <<titles, title, testCases, options, matchResult, error,
                 testCaseResults, matchVars, command, env, runOptions,
                 exitCode, report, clientVars, collectorVars>>

\* loadConfig and new JiraClient: no request is sent yet
LoadConfig ==
  /\ pc = "loadConfig"
  /\ IF loadConfig(env).threw
     THEN Return(catchExitCode(loadConfig(env).error), loadConfig(env).error)
     ELSE pc' = "collect" /\ UNCHANGED <<exitCode, error>>
  /\ UNCHANGED <<titles, title, pattern, testCases, options, matchResult,
                 jestResult, testCaseResults, matchVars, command, env,
                 runOptions, trace, report, clientVars, collectorVars>>

CollectTestCases ==
  /\ pc = "collect"
  /\ \E issue \in IssueResponses, search \in SearchResponses :
       LET platform == IF command = "run" THEN parsePlatform(runOptions.platform).platform
                       ELSE "all"
           r == collectTestCases(issue, search,
                                 [linkType |-> runOptions.linkType, platform |-> platform])
       IN /\ trace' = trace \o r.ops
          /\ IF r.threw
             THEN Return(catchExitCode(r.error), r.error) /\ UNCHANGED testCases
             ELSE /\ testCases' = r.testCases
                  /\ pc' = IF command = "run" THEN "collected" ELSE "reconcile"
                  /\ UNCHANGED <<exitCode, error>>
  /\ UNCHANGED <<titles, title, pattern, options, matchResult, jestResult,
                 testCaseResults, matchVars, command, env, runOptions, report,
                 clientVars, collectorVars>>

\* mutant: an empty list goes on to the matcher and the runner
NoTestCases_continue ==
  /\ pc = "collected"
  /\ testCases = <<>>
  /\ LET r == createTestPattern(testCases, [mode |-> runOptions.mode, jiraKey |-> <<>>])
     IN IF r.threw
        THEN /\ Return(catchExitCode(<<"Error">> \o r.error), <<"Error">> \o r.error)
             /\ UNCHANGED <<matchResult, trace>>
        ELSE /\ matchResult' = r.result
             /\ trace' = Append(trace, Event("pattern"))
             /\ pc' = "runJest"
             /\ UNCHANGED <<exitCode, error>>
  /\ UNCHANGED <<titles, title, pattern, testCases, options, jestResult,
                 testCaseResults, matchVars, command, env, runOptions, report,
                 clientVars, collectorVars>>

\* runCommand: no test cases, the report is written and the run succeeds
NoTestCases ==
  /\ pc = "collected"
  /\ testCases = <<>>
  /\ report' = <<generateReport([matchMode |-> runOptions.mode, testCaseResults |-> <<>>,
                                 isDryRun |-> runOptions.dry])>>
  /\ trace' = Append(trace, Event("report"))
  /\ Return(EXIT_CODES.SUCCESS, <<>>)
  /\ UNCHANGED <<titles, title, pattern, testCases, options, matchResult,
                 jestResult, testCaseResults, matchVars, command, env,
                 runOptions, clientVars, collectorVars>>

\* runCommand: createTestPattern is called with the mode option alone
BuildPattern ==
  /\ pc = "collected"
  /\ testCases # <<>>
  /\ options' = [mode |-> runOptions.mode, jiraKey |-> <<>>]
  /\ LET r == createTestPattern(testCases, [mode |-> runOptions.mode, jiraKey |-> <<>>])
     IN IF r.threw
        THEN /\ Return(catchExitCode(<<"Error">> \o r.error), <<"Error">> \o r.error)
             /\ UNCHANGED <<matchResult, trace>>
        ELSE /\ matchResult' = r.result
             /\ trace' = Append(trace, Event("pattern"))
             /\ pc' = IF runOptions.locate THEN "locate"
                      ELSE IF runOptions.dry THEN "dry" ELSE "runJest"
             /\ UNCHANGED <<exitCode, error>>
  /\ UNCHANGED <<titles, title, pattern, testCases, jestResult, testCaseResults,
                 matchVars, command, env, runOptions, report, clientVars, collectorVars>>

\* runCommand --locate: locateTests catches every error of its searches
LocateTests ==
  /\ pc = "locate"
  /\ trace' = Append(trace, Event("locate"))
  /\ pc' = IF runOptions.dry THEN "dry" ELSE "runJest"
  /\ UNCHANGED <<titles, title, pattern, testCases, options, matchResult, error,
                 jestResult, testCaseResults, matchVars, command, env,
                 runOptions, exitCode, report, clientVars, collectorVars>>

\* runCommand --dry: the command is printed, every test case is NOT_FOUND
DryRun ==
  /\ pc = "dry"
  /\ testCaseResults' = dryRunResults(testCases)
  /\ report' = <<generateReport([matchMode |-> runOptions.mode,
                                 testCaseResults |-> dryRunResults(testCases),
                                 isDryRun |-> TRUE])>>
  /\ trace' = Append(trace, Event("report"))
  /\ Return(EXIT_CODES.SUCCESS, <<>>)
  /\ UNCHANGED <<titles, title, pattern, testCases, options, matchResult,
                 jestResult, matchVars, command, env, runOptions, clientVars, collectorVars>>

\* the runner spawned a second time when the first run reports nothing
RunJest_retry ==
  /\ pc = "runJest"
  /\ command = "run"
  /\ pattern' = matchResult.pattern
  /\ \E results \in RunnerResultLists :
       /\ jestResult' = [testResults |-> results, summary |-> summaryOf(results)]
       /\ trace' = IF results = <<>>
                   THEN trace \o <<Event("runner"), Event("runner")>>
                   ELSE Append(trace, Event("runner"))
  /\ pc' = "reconcile"
  /\ UNCHANGED <<titles, title, testCases, options, matchResult, error,
                 testCaseResults, matchVars, command, env, runOptions,
                 exitCode, report, clientVars, collectorVars>>

\* runCommand: the runner is spawned once with the pattern; a runner that
\* cannot be spawned or whose output cannot be parsed gives no results
RunJest ==
  /\ pc = "runJest"
  /\ command = "run"
  /\ pattern' = matchResult.pattern
  /\ \E results \in RunnerResultLists :
       jestResult' = [testResults |-> results, summary |-> summaryOf(results)]
  /\ trace' = Append(trace, Event("runner"))
  /\ pc' = "reconcile"
  /\ UNCHANGED <<titles, title, testCases, options, matchResult, error,
                 testCaseResults, matchVars, command, env, runOptions,
                 exitCode, report, clientVars, collectorVars>>

MapResults ==
  /\ pc = "reconcile"
  /\ testCaseResults' = IF command = "run" THEN mapResultsToTestCases(testCases, jestResult)
                        ELSE runFileResults(testCases, jestResult)
  /\ trace' = Append(trace, Event("reconcile"))
  /\ pc' = IF runOptions.comment THEN "comment" ELSE "report"
  /\ UNCHANGED <<titles, title, pattern, testCases, options, matchResult, error,
                 jestResult, matchVars, command, env, runOptions, exitCode,
                 report, clientVars, collectorVars>>

\* postJiraComments: every addComment is attempted, a failed one is logged
\* and skipped
PostJiraComments ==
  /\ pc = "comment"
  /\ LET keys == commentKeys(ParentKey, testCaseResults)
     IN \E failed \in [1..Len(keys) -> BOOLEAN] :
          trace' = trace \o [i \in 1..Len(keys) |-> CommentEvent(keys[i], failed[i])]
  /\ pc' = "report"
  /\ UNCHANGED <<titles, title, pattern, testCases, options, matchResult, error,
                 jestResult, testCaseResults, matchVars, command, env,
                 runOptions, exitCode, report, clientVars, collectorVars>>

\* the report written before the comments are posted
WriteReport_beforeComments ==
  /\ pc = "report"
  /\ report' = <<generateReport([matchMode |-> runOptions.mode,
                                 testCaseResults |-> testCaseResults,
                                 isDryRun |-> IF command = "run" THEN FALSE
                                              ELSE runOptions.dry])>>
  /\ trace' = <<Event("report")>> \o trace
  /\ LET failures == IF command = "run" THEN hasFailures(testCaseResults)
                     ELSE jestResult.summary.failed > 0
     IN Return(IF failures THEN EXIT_CODES.TEST_FAILURE ELSE EXIT_CODES.SUCCESS, <<>>)
  /\ UNCHANGED <<titles, title, pattern, testCases, options, matchResult,
                 jestResult, testCaseResults, matchVars, command, env,
                 runOptions, clientVars, collectorVars>>

\* the report is written and the exit code follows from the results
\* (runCommand) or from the runner's failed count (runFileCommand)
WriteReport ==
  /\ pc = "report"
  /\ report' = <<generateReport([matchMode |-> runOptions.mode,
                                 testCaseResults |-> testCaseResults,
                                 isDryRun |-> IF command = "run" THEN FALSE
                                              ELSE runOptions.dry])>>
  /\ trace' = Append(trace, Event("report"))
  /\ LET failures == IF command = "run" THEN hasFailures(testCaseResults)
                     ELSE jestResult.summary.failed > 0
     IN Return(IF failures THEN EXIT_CODES.TEST_FAILURE ELSE EXIT_CODES.SUCCESS, <<>>)
  /\ UNCHANGED <<titles, title, pattern, testCases, options, matchResult,
                 jestResult, testCaseResults, matchVars, command, env,
                 runOptions, clientVars, collectorVars>>

NextRun ==
  \/ ParsePlatform
  \/ CheckTestFile
  \/ RunFileRunJest
  \/ LoadConfig
  \/ CollectTestCases
  \/ NoTestCases
  \/ BuildPattern
  \/ LocateTests
  \/ DryRun
  \/ RunJest
  \/ MapResults
  \/ PostJiraComments
  \/ WriteReport

SpecRun == InitRun /\ [][NextRun]_vars

(***************************************************************************)
(* The tracker client: jira/client.ts                                      *)
(***************************************************************************)
MaxCalls == 3

\* one network round trip (a fetch) made during operation number call
RoundTrip(call, method, version, resource) ==
  [call |-> call, method |-> method, version |-> version, resource |-> resource]

\* JiraConfig.apiVersion: 'v2', 'v3', 'auto' or absent ("")
ApiVersions == {"", "auto", "v2", "v3"}

\* how the tracker answers the two probes of /myself
ProbeAnswers == [v3 : BOOLEAN, v2 : BOOLEAN]

\* how a request of an operation ends: the response is read, the response
\* has an error status (handleError throws a JiraClientError), or the fetch
\* itself fails
RequestAnswers == {"ok", "JiraClientError", "Error"}

\* detectApiVersion without the memo: an explicit version is not returned
\* early and the stored version is not looked at
detectApiVersion_alwaysProbe(configured, detected, call, probe) ==
  IF probe.v3
  THEN [threw |-> FALSE, version |-> "v3", detected |-> "v3",
        sent |-> <<RoundTrip(call, "GET", "v3", "myself")>>]
  ELSE IF probe.v2
  THEN [threw |-> FALSE, version |-> "v2", detected |-> "v2",
        sent |-> <<RoundTrip(call, "GET", "v3", "myself"),
                   RoundTrip(call, "GET", "v2", "myself")>>]
  ELSE [threw |-> TRUE, version |-> "", detected |-> detected,
        sent |-> <<RoundTrip(call, "GET", "v3", "myself"),
                   RoundTrip(call, "GET", "v2", "myself")>>]

\* detectApiVersion that does not store the version it has detected
detectApiVersion_noMemo(configured, detected, call, probe) ==
  IF configured # "" /\ configured # "auto"
  THEN [threw |-> FALSE, version |-> configured, detected |-> detected, sent |-> <<>>]
  ELSE IF detected # "null"
  THEN [threw |-> FALSE, version |-> detected, detected |-> detected, sent |-> <<>>]
  ELSE IF probe.v3
  THEN [threw |-> FALSE, version |-> "v3", detected |-> detected,
        sent |-> <<RoundTrip(call, "GET", "v3", "myself")>>]
  ELSE IF probe.v2
  THEN [threw |-> FALSE, version |-> "v2", detected |-> detected,
        sent |-> <<RoundTrip(call, "GET", "v3", "myself"),
                   RoundTrip(call, "GET", "v2", "myself")>>]
  ELSE [threw |-> TRUE, version |-> "", detected |-> detected,
        sent |-> <<RoundTrip(call, "GET", "v3", "myself"),
                   RoundTrip(call, "GET", "v2", "myself")>>]

\* detectApiVersion: the version to use, the memoized version afterwards and
\* the probes sent
detectApiVersion(configured, detected, call, probe) ==
  IF configured # "" /\ configured # "auto"
  THEN [threw |-> FALSE, version |-> configured, detected |-> detected, sent |-> <<>>]
  ELSE IF detected # "null"
  THEN [threw |-> FALSE, version |-> detected, detected |-> detected, sent |-> <<>>]
  ELSE IF probe.v3
  THEN [threw |-> FALSE, version |-> "v3", detected |-> "v3",
        sent |-> <<RoundTrip(call, "GET", "v3", "myself")>>]
  ELSE IF probe.v2
  THEN [threw |-> FALSE, version |-> "v2", detected |-> "v2",
        sent |-> <<RoundTrip(call, "GET", "v3", "myself"),
                   RoundTrip(call, "GET", "v2", "myself")>>]
  ELSE [threw |-> TRUE, version |-> "", detected |-> detected,
        sent |-> <<RoundTrip(call, "GET", "v3", "myself"),
                   RoundTrip(call, "GET", "v2", "myself")>>]

\* an operation that detects the version and then sends one request
Operation(op, method, resource, probe, answer) ==
  LET call == Len(calls) + 1
      d == detectApiVersion(apiVersion, detectedApiVersion, call, probe)
  IN /\ detectedApiVersion' = d.detected
     /\ IF d.threw
        THEN /\ requests' = requests \o d.sent
             /\ calls' = Append(calls, [op |-> op, outcome |-> "JiraClientError"])
        ELSE /\ requests' = requests \o d.sent
                              \o <<RoundTrip(call, method, d.version, resource)>>
             /\ calls' = Append(calls, [op |-> op, outcome |-> answer])

InitClient ==
  /\ pc = "client"
  /\ apiVersion \in ApiVersions
  /\ detectedApiVersion = "null"
  /\ requests = <<>>
  /\ calls = <<>>
  /\ testCases = <<>>
  /\ options = NoOptions
  /\ matchResult = NoMatchResult
  /\ error = <<>>
  /\ titles = <<>>
  /\ title = <<>>
  /\ pattern = <<>>
  /\ jestResult = NoJestResult
  /\ testCaseResults = <<>>
  /\ MatchIdle
  /\ RunIdle
  /\ CollectorIdle

GetIssue ==
  /\ Len(calls) < MaxCalls
  /\ \E probe \in ProbeAnswers, answer \in RequestAnswers :
       Operation("getIssue", "GET", "issue", probe, answer)
  /\ UNCHANGED <<pc, titles, title, pattern, testCases, options, matchResult,
                 error, jestResult, testCaseResults, matchVars, runVars,
                 apiVersion, collectorVars>>

\* getIssues of an empty key list returns [] at once
GetIssues ==
  /\ Len(calls) < MaxCalls
  /\ \E keys \in {<<>>, <<ParentKey>>} :
       IF keys = <<>>
       THEN /\ calls' = Append(calls, [op |-> "getIssues", outcome |-> "ok"])
            /\ UNCHANGED <<requests, detectedApiVersion>>
       ELSE \E probe \in ProbeAnswers, answer \in RequestAnswers :
              Operation("getIssues", "GET", "search", probe, answer)
  /\ UNCHANGED <<pc, titles, title, pattern, testCases, options, matchResult,
                 error, jestResult, testCaseResults, matchVars, runVars,
                 apiVersion, collectorVars>>

AddComment ==
  /\ Len(calls) < MaxCalls
  /\ \E probe \in ProbeAnswers, answer \in RequestAnswers :
       Operation("addComment", "POST", "comment", probe, answer)
  /\ UNCHANGED <<pc, titles, title, pattern, testCases, options, matchResult,
                 error, jestResult, testCaseResults, matchVars, runVars,
                 apiVersion, collectorVars>>

NextClient == GetIssue \/ GetIssues \/ AddComment

SpecClient == InitClient /\ [][NextClient]_vars

(***************************************************************************)
(* matchesPlatformFilter applied to bounded label lists                    *)
(***************************************************************************)
\* the labels of an issue: plain ones, platform labels in several letter
\* cases, and one that contains 'platform:' without starting with it
Labels ==
  {"ui", "my-platform:web", "platform:web", "PLATFORM:WEB", "Platform:Mobile",
   "platform:ios"}

InitFilter ==
  /\ pc = "start"
  /\ issueLabels \in SeqsUpTo(Labels, MaxLabels)
  /\ platformFilter \in {"all", "web", "mobile"}
  /\ issueLinks = <<>>
  /\ linkTypeName = ""
  /\ issueKeys = <<>>
  /\ testCases = <<>>
  /\ options = NoOptions
  /\ matchResult = NoMatchResult
  /\ error = <<>>
  /\ titles = <<>>
  /\ title = <<>>
  /\ pattern = <<>>
  /\ jestResult = NoJestResult
  /\ testCaseResults = <<>>
  /\ MatchIdle
  /\ RunIdle
  /\ ClientIdle

CallMatchesPlatformFilter ==
  /\ pc = "start"
  /\ matched' = matchesPlatformFilter(issueLabels, platformFilter)
  /\ pc' = "filtered"
  /\ UNCHANGED <<titles, title, pattern, testCases, options, matchResult, error,
                 jestResult, testCaseResults, name, runVars, clientVars,
                 collectorVars>>

NextFilter == CallMatchesPlatformFilter

SpecFilter == InitFilter /\ [][NextFilter]_vars

(***************************************************************************)
(* extractLinkedIssueKeys applied to bounded lists of issue links          *)
(***************************************************************************)
LinkTypes ==
  {[name |-> "Test", inward |-> "Is Tested By", outward |-> "tests"],
   [name |-> "Blocks", inward |-> "is blocked by", outward |-> "blocks"]}

\* the requested link types: the inward, the outward and the type name of the
\* first link type in another letter case, the outward name of the second,
\* and one no link has
RequestedLinkTypes == {"is tested by", "TESTS", "Test", "blocks", "relates"}

\* the link at position i: its issues, when present, carry keys of their own
LinksAt(i) ==
  {[type |-> t, inwardIssue |-> in, outwardIssue |-> out] :
     t \in LinkTypes, in \in {<<>>, << <<"IN-", i>> >>}, out \in {<<>>, << <<"OUT-", i>> >>}}

LinkLists ==
  UNION {{f \in [1..n -> UNION {LinksAt(i) : i \in 1..n}] : \A i \in 1..n : f[i] \in LinksAt(i)} :
           n \in 0..MaxLinks}

InitLinks ==
  /\ pc = "start"
  /\ issueLinks \in LinkLists
  /\ linkTypeName \in RequestedLinkTypes
  /\ issueKeys = <<>>
  /\ issueLabels = <<>>
  /\ platformFilter = ""
  /\ testCases = <<>>
  /\ options = NoOptions
  /\ matchResult = NoMatchResult
  /\ error = <<>>
  /\ titles = <<>>
  /\ title = <<>>
  /\ pattern = <<>>
  /\ jestResult = NoJestResult
  /\ testCaseResults = <<>>
  /\ MatchIdle
  /\ RunIdle
  /\ ClientIdle

CallExtractLinkedIssueKeys ==
  /\ pc = "start"
  /\ issueKeys' = extractLinkedIssueKeys(issueLinks, linkTypeName)
  /\ pc' = "extracted"
  /\ UNCHANGED <<titles, title, pattern, testCases, options, matchResult, error,
                 jestResult, testCaseResults, matchVars, runVars, clientVars,
                 issueLabels, platformFilter, issueLinks, linkTypeName>>

NextLinks == CallExtractLinkedIssueKeys

SpecLinks == InitLinks /\ [][NextLinks]_vars

(***************************************************************************)
(* generateReport applied to bounded lists of test-case results            *)
(***************************************************************************)
TestStatuses == {"PASS", "FAIL", "NOT_FOUND", "ERROR"}

\* the result of test case i: a passed or failed test case has its runner
\* result, a test case without a test or with an error has none
ResultAt(i, status) ==
  [testCase |-> [jiraKey |-> <<"TC-", i>>, summary |-> <<"a">>],
   status |-> status,
   jestResult |-> IF status \in {"PASS", "FAIL"}
                  THEN <<[title |-> <<"a">>,
                          status |-> IF status = "PASS" THEN "passed" ELSE "failed",
                          duration |-> i]>>
                  ELSE <<>>]

TestCaseResultLists ==
  UNION {{[i \in 1..n |-> ResultAt(i, f[i])] : f \in [1..n -> TestStatuses]} :
           n \in 0..MaxReportResults}

InitReport ==
  /\ pc = "start"
  /\ testCaseResults \in TestCaseResultLists
  /\ testCases = <<>>
  /\ options = NoOptions
  /\ matchResult = NoMatchResult
  /\ error = <<>>
  /\ titles = <<>>
  /\ title = <<>>
  /\ pattern = <<>>
  /\ jestResult = NoJestResult
  /\ MatchIdle
  /\ RunIdle
  /\ ClientIdle
  /\ CollectorIdle

CallGenerateReport ==
  /\ pc = "start"
  /\ \E mode \in MatchModes, dry \in BOOLEAN :
       report' = <<generateReport([matchMode |-> mode,
                                   testCaseResults |-> testCaseResults,
                                   isDryRun |-> dry])>>
  /\ pc' = "reported"
  /\ UNCHANGED <<titles, title, pattern, testCases, options, matchResult, error,
                 jestResult, testCaseResults, matchVars, command, env, runOptions,
                 trace, exitCode, clientVars, collectorVars>>

NextReport == CallGenerateReport

SpecReport == InitReport /\ [][NextReport]_vars

(***************************************************************************)
(* Operators the properties are stated with                                *)
(***************************************************************************)
\* the positions of the pattern not consumed by an escape: a backslash and
\* the character it escapes are skipped
RECURSIVE UnescapedFrom(_, _)
UnescapedFrom(p, i) ==
  IF i > Len(p) THEN {}
  ELSE IF p[i] = "\\" THEN UnescapedFrom(p, i + 2)
  ELSE {i} \cup UnescapedFrom(p, i + 1)

Meta(p, c) == {i \in UnescapedFrom(p, 1) : p[i] = c}

\* the alternatives of a pattern: its pieces between unescaped '|'
RECURSIVE SplitFrom(_, _, _)
SplitFrom(p, i, cur) ==
  IF i > Len(p) THEN <<cur>>
  ELSE IF p[i] = "\\" /\ i < Len(p) THEN SplitFrom(p, i + 2, cur \o <<p[i], p[i + 1]>>)
  ELSE IF p[i] = "|" THEN <<cur>> \o SplitFrom(p, i + 1, <<>>)
  ELSE SplitFrom(p, i + 1, Append(cur, p[i]))

Alternatives(p) == SplitFrom(p, 1, <<>>)

\* the elements of ts at the positions where a value occurs for the first time
FirstOccurrences(ts) ==
  LET keep == {i \in 1..Len(ts) : \A j \in 1..(i - 1) : ts[j] # ts[i]}
  IN [k \in 1..Cardinality(keep) |->
        ts[CHOOSE i \in keep : Cardinality({j \in keep : j < i}) = k - 1]]

Occurrences(ts, t) == Cardinality({i \in 1..Len(ts) : ts[i] = t})

\* the indices of the runner results whose title is exactly s
Hits(s) == {j \in 1..Len(jestResult.testResults) : jestResult.testResults[j].title = s}

FirstHit(s) == CHOOSE j \in Hits(s) : \A k \in Hits(s) : j <= k

EmptyMatchResult == [returned |-> TRUE, pattern |-> <<>>, testCases |-> <<>>, warnings |-> <<>>]

UnsupportedMode(mode) == <<"Unsupported match mode: ", mode>>

(***************************************************************************)
(* Properties                                                              *)
(***************************************************************************)

\* C1: reconciliation classifies a test case as NOT_FOUND exactly when no
\* runner result has a title equal to its summary (case-sensitive, nothing
\* normalized); otherwise as PASS when the matched result's status is
\* 'passed' and as FAIL for any other status.
C1_Classification ==
  pc = "mapped" =>
    /\ Len(testCaseResults) = Len(testCases)
    /\ \A i \in 1..Len(testCases) :
         LET r == testCaseResults[i]
             s == testCases[i].summary
         IN /\ (r.status = "NOT_FOUND") <=> (Hits(s) = {})
            /\ Hits(s) # {} =>
                 /\ r.jestResult # <<>>
                 /\ r.jestResult[1].title = s
                 /\ r.status = IF r.jestResult[1].status = "passed" THEN "PASS" ELSE "FAIL"

\* a passed, a failed and an unmatched test case in one run, the unmatched
\* one having a runner result that differs from it in letter case only
C1_Witness ==
  /\ pc = "mapped"
  /\ \E i, j, k \in 1..Len(testCaseResults) :
       /\ testCaseResults[i].status = "PASS"
       /\ testCaseResults[j].status = "FAIL"
       /\ testCaseResults[k].status = "NOT_FOUND"
       /\ testCases[k].summary = <<"A">>
       /\ Hits(<<"a">>) # {}

\* C2: reconciliation keeps length, order and multiplicity: one record per
\* input test case, record i refers to test case i (duplicated titles
\* included), and a record carries the matched runner entry when there is
\* one and none when the outcome is NOT_FOUND.
C2_OneRecordPerTestCase ==
  pc = "mapped" =>
    /\ Len(testCaseResults) = Len(testCases)
    /\ \A i \in 1..Len(testCaseResults) :
         LET r == testCaseResults[i]
         IN /\ r.testCase = testCases[i]
            /\ (r.status = "NOT_FOUND") <=> (r.jestResult = <<>>)
            /\ r.jestResult # <<>> =>
                 /\ Len(r.jestResult) = 1
                 /\ \E j \in Hits(testCases[i].summary) :
                      r.jestResult[1] = jestResult.testResults[j]

\* two test cases of one title, both matched, next to an unmatched one
C2_Witness ==
  /\ pc = "mapped"
  /\ Len(testCases) = 3
  /\ testCases[1].summary = testCases[3].summary
  /\ testCaseResults[1].jestResult # <<>>
  /\ testCaseResults[3].jestResult # <<>>
  /\ testCaseResults[2].status = "NOT_FOUND"

\* C3: when several runner results have the title of a test case, the first
\* of them in runner-result order decides the status and is the attached
\* entry, whatever the statuses of the later ones.
C3_FirstMatchWins ==
  pc = "mapped" =>
    \A i \in 1..Len(testCases) :
      LET s == testCases[i].summary
      IN Hits(s) # {} =>
           /\ i <= Len(testCaseResults)
           /\ testCaseResults[i].jestResult = <<jestResult.testResults[FirstHit(s)]>>
           /\ testCaseResults[i].status =
                IF jestResult.testResults[FirstHit(s)].status = "passed" THEN "PASS" ELSE "FAIL"

\* a failed result followed by a passed result of the same title
C3_Witness ==
  /\ pc = "mapped"
  /\ \E i \in 1..Len(testCases) :
       LET s == testCases[i].summary
       IN /\ Cardinality(Hits(s)) >= 2
          /\ jestResult.testResults[FirstHit(s)].status = "failed"
          /\ \E j \in Hits(s) : jestResult.testResults[j].status = "passed"
          /\ testCaseResults[i].status = "FAIL"

\* C4: in title mode with a non-empty list the pattern is built from the
\* unique titles only: it is createCombinedPattern of the summaries
\* deduplicated by exact equality in first-occurrence order, so it has one
\* alternative per distinct summary, and summaries that differ in letter
\* case only are both kept.
C4_PatternFromUniqueTitles ==
  (pc # "start" /\ options.mode = "title" /\ testCases # <<>>) =>
    LET ts == summaries(testCases)
    IN /\ matchResult.returned
       /\ matchResult.pattern = createCombinedPattern(FirstOccurrences(ts))
       /\ Len(Alternatives(matchResult.pattern)) = Cardinality(Range(ts))

\* a duplicated title together with its other letter case
C4_Witness ==
  /\ pc = "matched"
  /\ options.mode = "title"
  /\ Len(testCases) >= 3
  /\ testCases[1].summary = <<"a">>
  /\ testCases[2].summary = <<"A">>
  /\ testCases[3].summary = <<"a">>
  /\ Len(Alternatives(matchResult.pattern)) = 2

\* C5: createTestPattern returns as testCases the input list, unmodified:
\* same elements, same order, duplicates included; and the call leaves the
\* caller's list as it was.
C5_TestCasesUnmodified ==
  [][CallCreateTestPattern =>
       /\ testCases' = testCases
       /\ matchResult'.returned => matchResult'.testCases = testCases]_vars

\* a returned list with a duplicated title
C5_Witness ==
  /\ pc = "matched"
  /\ options.mode = "title"
  /\ Len(matchResult.testCases) >= 2
  /\ matchResult.testCases[1].summary = matchResult.testCases[2].summary

\* C6: in title mode the warnings are one entry per distinct summary that
\* occurs more than once, naming the summary and its count, in the order of
\* first occurrence; there are none when all summaries are distinct.
C6_DuplicateWarnings ==
  (pc # "start" /\ options.mode = "title" /\ testCases # <<>>) =>
    LET ts == summaries(testCases)
        dups == SelectSeq(FirstOccurrences(ts), LAMBDA t : Occurrences(ts, t) > 1)
    IN /\ matchResult.returned
       /\ Len(matchResult.warnings) = Cardinality({t \in Range(ts) : Occurrences(ts, t) > 1})
       /\ matchResult.warnings =
            [k \in 1..Len(dups) |-> DuplicateWarning(dups[k], Occurrences(ts, dups[k]))]
       /\ \A k \in 1..Len(matchResult.warnings) :
            /\ matchResult.warnings[k][2] = dups[k]
            /\ matchResult.warnings[k][4] = Occurrences(ts, dups[k])

\* two duplicated titles, the one that is warned about first having its
\* second occurrence last
C6_Witness ==
  /\ pc = "matched"
  /\ options.mode = "title"
  /\ Len(testCases) = 4
  /\ testCases[1].summary = testCases[4].summary
  /\ testCases[2].summary = testCases[3].summary
  /\ testCases[1].summary # testCases[2].summary
  /\ Len(matchResult.warnings) = 2

\* C7: in title mode an empty list returns exactly
\* {pattern: "", testCases: [], warnings: []} and raises no error.
C7_EmptyInput ==
  (pc # "start" /\ options.mode = "title" /\ testCases = <<>>) =>
    /\ pc = "matched"
    /\ matchResult = EmptyMatchResult
    /\ error = <<>>

C7_Witness ==
  /\ pc = "matched"
  /\ options.mode = "title"
  /\ testCases = <<>>
  /\ matchResult.returned

C9_CombinedPattern ==
  pc = "combined" =>
    /\ Len(titles) = 0 => pattern = <<>>
    /\ Len(titles) = 1 =>
         /\ pattern = escapeRegex(titles[1]) \o <<"$">>
         /\ Meta(pattern, "(") = {}
         /\ Meta(pattern, ")") = {}
    /\ Len(titles) >= 2 =>
         /\ Len(Alternatives(pattern)) = Len(titles)
         /\ \A i \in 1..Len(titles) :
              Alternatives(pattern)[i] = <<"(">> \o escapeRegex(titles[i]) \o <<"$", ")">>

\* a title that holds the alternation character, given twice
C9_Witness ==
  /\ pc = "combined"
  /\ Len(titles) = 3
  /\ titles[1] = <<"|">>
  /\ titles[2] = <<"a">>
  /\ titles[3] = <<"|">>
  /\ Len(Alternatives(pattern)) = 3

\* C10: createExactMatchPattern(title) is escapeRegex(title) followed by a
\* single '$' end anchor, and has no leading anchor.
C10_ExactMatchPattern ==
  pc = "exact" =>
    /\ Len(pattern) = Len(escapeRegex(title)) + 1
    /\ SubSeq(pattern, 1, Len(pattern) - 1) = escapeRegex(title)
    /\ Meta(pattern, "$") = {Len(pattern)}
    /\ Meta(pattern, "^") = {}

\* a title that is itself the anchor character
C10_Witness ==
  /\ pc = "exact"
  /\ title = <<"$">>
  /\ pattern = <<"\\", "$", "$">>

\* the string n ends with the string t
EndsWith(n, t) ==
  /\ Len(t) <= Len(n)
  /\ SubSeq(n, Len(n) - Len(t) + 1, Len(n)) = t

\* the fourteen characters the escaper is documented to escape
DocumentedSpecials ==
  {".", "*", "+", "?", "^", "$", "{", "}", "(", ")", "|", "[", "]", "\\"}

SpecialsBefore(str, i) ==
  Cardinality({j \in 1..(i - 1) : str[j] \in DocumentedSpecials})

\* a pattern with the backslash removed from every escape
RECURSIVE Unescape(_)
Unescape(p) ==
  IF p = <<>> THEN <<>>
  ELSE IF Head(p) = "\\" /\ Len(p) >= 2 THEN <<p[2]>> \o Unescape(SubSeq(p, 3, Len(p)))
  ELSE <<Head(p)>> \o Unescape(Tail(p))

\* every prefix of the pattern has at least as many unescaped '(' as ')',
\* and the whole pattern has as many
BalancedParens(p) ==
  /\ Cardinality(Meta(p, "(")) = Cardinality(Meta(p, ")"))
  /\ \A i \in 1..Len(p) :
       Cardinality({j \in Meta(p, ")") : j <= i}) <= Cardinality({j \in Meta(p, "(") : j <= i})

\* C11 as stated: the exact-match pattern of t matches n exactly when n ends
\* with t, and the combined pattern of a title list matches n exactly when
\* n ends with one of the titles.
C11_MatchesSuffix ==
  /\ pc = "testedExact" => (matched <=> EndsWith(name, title))
  /\ pc = "testedCombined" =>
       (matched <=> \E i \in 1..Len(titles) : EndsWith(name, titles[i]))

\* C11 as amended: the exact-match pattern of t matches n exactly when n
\* ends with t; the combined pattern of a non-empty title list matches n
\* exactly when n ends with one of the titles; the combined pattern of the
\* empty list is the empty pattern, which matches every name.
C11_MatchesSuffixOfNonEmpty ==
  /\ pc = "testedExact" => (matched <=> EndsWith(name, title))
  /\ (pc = "testedCombined" /\ titles # <<>>) =>
       (matched <=> \E i \in 1..Len(titles) : EndsWith(name, titles[i]))
  /\ (pc = "testedCombined" /\ titles = <<>>) => (pattern = <<>> /\ matched)

\* a name with a prefix before the second title is matched, and a name in
\* which a title is followed by further text is not
C11_Witness ==
  /\ pc = "testedCombined"
  /\ titles = <<<<".">>, <<"a", "b">>>>
  /\ \/ (name = <<"b", "a", "b">> /\ matched)
     \/ (name = <<"a", "b", "a">> /\ ~matched)

\* C12: escapeRegex is total; its output is the input with a backslash put
\* before each of . * + ? ^ $ { } ( ) | [ ] \ and every other character
\* copied in place; the empty string gives the empty string; removing the
\* inserted backslashes gives back the input.
C12_EscapeRegex ==
  pc = "escaped" =>
    /\ Len(pattern) = Len(title) + SpecialsBefore(title, Len(title) + 1)
    /\ \A i \in 1..Len(title) :
         LET at == i + SpecialsBefore(title, i)
         IN IF title[i] \in DocumentedSpecials
            THEN pattern[at] = "\\" /\ pattern[at + 1] = title[i]
            ELSE pattern[at] = title[i]
    /\ title = <<>> => pattern = <<>>
    /\ Unescape(pattern) = title

\* a backslash followed by a closing bracket
C12_Witness ==
  /\ pc = "escaped"
  /\ title = <<"\\", "]">>
  /\ pattern = <<"\\", "\\", "\\", "]">>

\* C13: in title mode createTestPattern never fails: the pattern compiles,
\* every special character of a title is escaped, and the unescaped special
\* characters are the builder's balanced parentheses, '|' and '$'; the
\* pattern-construction error is not raised.
C13_TitleModeNeverFails ==
  (pc # "start" /\ options.mode = "title") =>
    /\ pc = "matched"
    /\ error = <<>>
    /\ matchResult.returned
    /\ isValidRegex(matchResult.pattern)
    /\ BalancedParens(matchResult.pattern)
    /\ \A i \in UnescapedFrom(matchResult.pattern, 1) :
         matchResult.pattern[i] \in DocumentedSpecials =>
           matchResult.pattern[i] \in {"(", ")", "|", "$"}
    /\ Len(Alternatives(matchResult.pattern)) =
         IF testCases = <<>> THEN 1 ELSE Cardinality(Range(summaries(testCases)))

\* an opening parenthesis and a quantified group as summaries
C13_Witness ==
  /\ pc = "matched"
  /\ Len(testCases) = 2
  /\ testCases[1].summary = <<"(">>
  /\ testCases[2].summary = <<"(", "a", "|", "b", ")", "*">>
  /\ Cardinality(Meta(matchResult.pattern, "(")) = 2

\* the operations of the steps a run has taken, in order
Ops == [i \in 1..Len(trace) |-> trace[i].op]

CountOp(op) == Cardinality({i \in 1..Len(trace) : trace[i].op = op})

\* the place of a step in the documented order of runCommand
RunRank(op) ==
  CASE op = "getIssue" -> 1
    [] op = "getIssues" -> 2
    [] op = "pattern" -> 3
    [] op = "locate" -> 4
    [] op = "runner" -> 5
    [] op = "reconcile" -> 6
    [] op = "addComment" -> 7
    [] op = "report" -> 8

\* the place of a step in the order of runFileCommand
FileRank(op) ==
  CASE op = "runner" -> 1
    [] op = "getIssue" -> 2
    [] op = "getIssues" -> 3
    [] op = "reconcile" -> 4
    [] op = "addComment" -> 5
    [] op = "report" -> 6
    [] op = "pattern" -> 0
    [] op = "locate" -> 0

Rank(op) == IF command = "run" THEN RunRank(op) ELSE FileRank(op)

\* every step but a comment happens once, and the steps follow their ranks
StepsInOrder ==
  \A i, j \in 1..Len(trace) :
    i < j => \/ Rank(trace[i].op) < Rank(trace[j].op)
             \/ trace[i].op = "addComment" /\ trace[j].op = "addComment"

C15_ReportExactlyOnce ==
  pc = "done" =>
    /\ CountOp("report") = 1
    /\ trace[Len(trace)].op = "report"

\* C15 as amended: no run writes the report twice; a run that returns 0 or 1
\* has written it exactly once, a run that returns 2 or 3 has not written
\* it; once it is written it is the last step of the run and the run is
\* over.
C15_ReportAtMostOnceAtTheEnd ==
  /\ CountOp("report") <= 1
  /\ CountOp("report") = 1 =>
       /\ trace[Len(trace)].op = "report"
       /\ pc = "done"
       /\ report # <<>>
  /\ (pc = "done" /\ exitCode \in {0, 1}) => CountOp("report") = 1
  /\ (pc = "done" /\ exitCode \in {2, 3}) => (CountOp("report") = 0 /\ report = <<>>)

\* a run that comments and then writes its report
C15_Witness ==
  /\ pc = "done"
  /\ CountOp("addComment") = 2
  /\ CountOp("runner") = 1
  /\ trace[Len(trace)].op = "report"
  /\ report # <<>>

\* the test-case results of the run hold one of the given statuses
SomeStatus(statuses) ==
  \E i \in 1..Len(testCaseResults) : testCaseResults[i].status \in statuses

\* C16: a run of runCommand that executed the tests and ended without an
\* internal error returns 1 if some test case is FAIL or ERROR and 0
\* otherwise; NOT_FOUND test cases alone give 0.
C16_ExitCodeOfTestRun ==
  (command = "run" /\ pc = "done" /\ CountOp("runner") = 1 /\ error = <<>>) =>
    /\ exitCode = IF SomeStatus({"FAIL", "ERROR"}) THEN 1 ELSE 0
    /\ (\A i \in 1..Len(testCaseResults) :
          testCaseResults[i].status \in {"NOT_FOUND", "PASS"}) => exitCode = 0
    /\ Len(testCaseResults) = Len(testCases)

\* one test case passed and one was not found: the run returns 0
C16_Witness ==
  /\ command = "run"
  /\ pc = "done"
  /\ CountOp("runner") = 1
  /\ Len(testCaseResults) = 2
  /\ testCaseResults[1].status = "NOT_FOUND"
  /\ testCaseResults[2].status = "PASS"
  /\ exitCode = 0

\* the environment lacks the base URL or both ways of authentication
BadEnvironment ==
  \/ "JIRA_BASE_URL" \notin env
  \/ ("JIRA_PAT" \notin env /\ ~({"JIRA_EMAIL", "JIRA_API_TOKEN"} \subseteq env))

BadPlatform == runOptions.platform \notin {"all", "web", "mobile", "WEB"}

\* C17: runCommand returns 2 with no tracker request and no runner
\* invocation when the base URL or the authentication is missing or the
\* platform is invalid, and 3 with no runner invocation when a tracker read
\* fails with a JiraClientError; in both cases no comment is posted.
C17_ErrorExitCodes ==
  (command = "run" /\ pc = "done") =>
    /\ (BadEnvironment \/ BadPlatform) => (exitCode = 2 /\ trace = <<>>)
    /\ (error # <<>> /\ error[1] = "JiraClientError") =>
         /\ exitCode = 3
         /\ CountOp("runner") = 0
         /\ CountOp("addComment") = 0
         /\ trace[Len(trace)].failed

\* the issue was read and the search for the linked issues failed
C17_Witness ==
  /\ command = "run"
  /\ pc = "done"
  /\ exitCode = 3
  /\ Len(trace) = 2
  /\ trace[1] = Event("getIssue")
  /\ trace[2] = FailedEvent("getIssues")

\* C18: when runCommand has collected an empty list it returns 0 without
\* building a pattern, invoking the runner or posting a comment, and writes
\* a report with no test cases whose overall result is 'no_tests'.
C18_NoTestCases ==
  (command = "run" /\ testCases = <<>> /\ error = <<>>
     /\ pc \notin {"start", "loadConfig", "collect", "collected"}) =>
    /\ pc = "done"
    /\ exitCode = 0
    /\ CountOp("pattern") = 0
    /\ CountOp("runner") = 0
    /\ CountOp("addComment") = 0
    /\ report # <<>>
    /\ report[1].testCases = <<>>
    /\ report[1].summary.total = 0
    /\ report[1].overallResult = "no_tests"

\* the issue and its linked issues were read and gave no test case
C18_Witness ==
  /\ command = "run"
  /\ pc = "done"
  /\ testCases = <<>>
  /\ Ops = <<"getIssue", "getIssues", "report">>
  /\ report[1].overallResult = "no_tests"

\* C19 as stated: a dry run of the run command with the CLI defaults on a
\* ticket with at least one collected test case returns 0, invokes no runner,
\* posts no comment and writes a dry-run report with one NOT_FOUND entry per
\* test case.
C19_DryRunWithDefaults ==
  (command = "run" /\ pc = "done" /\ runOptions.dry /\ CliDefaults(runOptions)
     /\ testCases # <<>>) =>
    /\ exitCode = 0
    /\ CountOp("runner") = 0
    /\ CountOp("addComment") = 0
    /\ report # <<>>
    /\ report[1].isDryRun
    /\ Len(report[1].testCases) = Len(testCases)
    /\ \A i \in 1..Len(testCases) : report[1].testCases[i].status = "NOT_FOUND"

\* the round trips of operation number n, and its probes among them
RoundTripsOf(n) == SelectSeq(requests, LAMBDA r : r.call = n)

ProbesOf(n) == SelectSeq(requests, LAMBDA r : r.call = n /\ r.resource = "myself")

\* the client had no version to use before operation number n: it is
\* configured with 'auto' or with no version, and no earlier operation made
\* a successful probe
Undetected(n) ==
  /\ apiVersion \in {"auto", ""}
  /\ \A m \in 1..(n - 1) : Len(ProbesOf(m)) # 1 /\ Len(RoundTripsOf(m)) < 3

\* C20 as stated: every operation of the client makes at most one round
\* trip.
C20_AtMostOneRoundTrip ==
  \A n \in 1..Len(calls) : Len(RoundTripsOf(n)) <= 1

\* C20 as amended: every operation sends at most one request of its own (none
\* for getIssues of no keys); on a client that has a version, configured or
\* detected, that is its only round trip; on a client configured with 'auto'
\* (or with no version) that has not yet detected a version the operation first sends one or two probes of
\* /myself, so that it makes up to three round trips, and none of its own
\* when both probes fail.
C20_OneRequestAfterDetection ==
  \A n \in 1..Len(calls) :
    LET all == RoundTripsOf(n)
        probes == ProbesOf(n)
    IN /\ Len(all) - Len(probes) <= 1
       /\ Len(probes) <= 2
       /\ Len(all) <= 3
       /\ ~Undetected(n) => (probes = <<>> /\ Len(all) <= 1)
       /\ Len(probes) > 0 => Undetected(n)
       /\ (Len(probes) = 2 /\ Len(all) = 2) => calls[n].outcome = "JiraClientError"

\* the first operation of an 'auto' client makes three round trips and the
\* second one a single one
C20_Witness ==
  /\ apiVersion = "auto"
  /\ Len(calls) >= 2
  /\ calls[1].op = "getIssue"
  /\ Len(RoundTripsOf(1)) = 3
  /\ calls[2].op = "addComment"
  /\ Len(RoundTripsOf(2)) = 1

\* the requests of operation number n that are not probes
OwnRequestsOf(n) == SelectSeq(requests, LAMBDA r : r.call = n /\ r.resource # "myself")

\* C21: a client configured with 'auto' sends nothing when it is constructed
\* and detects the version on the first operation that needs it: it probes v3
\* first and v2 only after the v3 probe failed, fails with a JiraClientError
\* when both probes fail, and after one successful detection sends no further
\* probe and uses the detected version for every later request; a client with
\* an explicit version never probes and uses that version.
C21_LazyMemoizedDetection ==
  /\ calls = <<>> => (requests = <<>> /\ detectedApiVersion = "null")
  /\ apiVersion \in {"v2", "v3"} =>
       /\ detectedApiVersion = "null"
       /\ \A i \in 1..Len(requests) :
            requests[i].resource # "myself" /\ requests[i].version = apiVersion
  /\ apiVersion \in {"auto", ""} =>
       \A n \in 1..Len(calls) :
         LET probes == ProbesOf(n)
             own == OwnRequestsOf(n)
         IN /\ Len(probes) <= 2
            /\ probes # <<>> =>
                 /\ Undetected(n)
                 /\ probes[1].version = "v3"
                 /\ RoundTripsOf(n)[1] = probes[1]
            /\ Len(probes) = 1 => (own # <<>> /\ own[1].version = "v3")
            /\ Len(probes) = 2 =>
                 /\ probes[2].version = "v2"
                 /\ RoundTripsOf(n)[2] = probes[2]
                 /\ IF own = <<>> THEN calls[n].outcome = "JiraClientError"
                    ELSE own[1].version = "v2"
            /\ (probes = <<>> /\ own # <<>>) => ~Undetected(n)
            /\ own # <<>> => own[1].version = detectedApiVersion
            /\ \A m \in 1..(n - 1) :
                 (OwnRequestsOf(m) # <<>> /\ own # <<>>) =>
                    OwnRequestsOf(m)[1].version = own[1].version

\* both probes fail in the first operation, the second operation detects v2
\* after a failed v3 probe, the third sends its request alone with v2
C21_Witness ==
  /\ apiVersion = "auto"
  /\ Len(calls) = 3
  /\ Len(ProbesOf(1)) = 2 /\ OwnRequestsOf(1) = <<>>
  /\ Len(ProbesOf(2)) = 2 /\ Len(OwnRequestsOf(2)) = 1
  /\ ProbesOf(3) = <<>>
  /\ Len(OwnRequestsOf(3)) = 1
  /\ OwnRequestsOf(3)[1].version = "v2"
  /\ detectedApiVersion = "v2"

\* the labels that start with 'platform:', letter case ignored
PlatformLabels == {"platform:web", "PLATFORM:WEB", "Platform:Mobile", "platform:ios"}

\* the labels that are 'platform:<platform>', letter case ignored
LabelsOf(platform) ==
  IF platform = "web" THEN {"platform:web", "PLATFORM:WEB"}
  ELSE IF platform = "mobile" THEN {"Platform:Mobile"}
  ELSE {}

OtherPlatform(platform) == IF platform = "web" THEN "mobile" ELSE "web"

\* C22: matchesPlatformFilter is true for the platform 'all'; for 'web' and
\* 'mobile' it is true exactly when no label starts with 'platform:' or some
\* label is 'platform:<platform>', letter case ignored; a test case carrying
\* only the other platform's label is excluded
C22_PlatformFilter ==
  pc = "filtered" =>
    /\ platformFilter = "all" => matched
    /\ platformFilter # "all" =>
         (matched <=> \/ \A i \in 1..Len(issueLabels) : issueLabels[i] \notin PlatformLabels
                      \/ \E i \in 1..Len(issueLabels) : issueLabels[i] \in LabelsOf(platformFilter))
    /\ (/\ platformFilter # "all"
        /\ issueLabels # <<>>
        /\ \A i \in 1..Len(issueLabels) : issueLabels[i] \in LabelsOf(OtherPlatform(platformFilter)))
         => ~matched

\* a plain label and the web label in capitals pass the web filter
C22_Witness ==
  /\ pc = "filtered"
  /\ platformFilter = "web"
  /\ issueLabels = <<"ui", "PLATFORM:WEB">>
  /\ matched

\* the requested link types that name a link type, letter case ignored
RequestsOf(type) ==
  IF type.name = "Test" THEN {"is tested by", "TESTS", "Test"}
  ELSE IF type.name = "Blocks" THEN {"blocks"}
  ELSE {}

\* the links of the list whose type is the requested one
MatchingLinks == {i \in 1..Len(issueLinks) : linkTypeName \in RequestsOf(issueLinks[i].type)}

\* the keys of the issues present in the link at position i
KeysAt(i) == Range(issueLinks[i].inwardIssue) \cup Range(issueLinks[i].outwardIssue)

\* the place of a key in the list of links: the inward issue of a link comes
\* before its outward issue, and both before the issues of the next link
KeyRank(key) == IF key[1] = "IN-" THEN 2 * key[2] - 1 ELSE 2 * key[2]

\* C23: extractLinkedIssueKeys returns, in link order, the inward and then the
\* outward issue key of exactly the links whose type name, inward name or
\* outward name is the requested link type, letter case ignored; no other link
\* contributes, and an empty or non-matching list gives the empty list
C23_LinkedIssueKeys ==
  pc = "extracted" =>
    /\ Range(issueKeys) = UNION {KeysAt(i) : i \in MatchingLinks}
    /\ \A j, k \in 1..Len(issueKeys) : j < k => KeyRank(issueKeys[j]) < KeyRank(issueKeys[k])
    /\ MatchingLinks = {} => issueKeys = <<>>

\* a Blocks link is passed over and both issues of the Test link are returned,
\* the link type being requested by its outward name in capitals
C23_Witness ==
  /\ pc = "extracted"
  /\ linkTypeName = "TESTS"
  /\ Len(issueLinks) = 2
  /\ issueLinks[1].type.name = "Blocks" /\ issueLinks[1].inwardIssue # <<>>
  /\ issueLinks[2].type.name = "Test"
  /\ issueKeys = << <<"IN-", 2>>, <<"OUT-", 2>> >>

\* the test-case results with a status
ResultsWith(status) == {i \in 1..Len(testCaseResults) : testCaseResults[i].status = status}

\* C24: generateReport produces one entry per test-case result, in input
\* order; summary.total is the number of results and the sum of passed,
\* failed, notFound and errors; overallResult is 'no_tests' exactly when there
\* are no results, 'fail' exactly when some result is FAIL or ERROR, and
\* 'pass' otherwise, so that NOT_FOUND results never make it 'fail'
C24_GeneratedReport ==
  pc = "reported" =>
    LET r == report[1]
    IN /\ Len(r.testCases) = Len(testCaseResults)
       /\ \A i \in 1..Len(testCaseResults) :
            /\ r.testCases[i].jiraKey = testCaseResults[i].testCase.jiraKey
            /\ r.testCases[i].status = testCaseResults[i].status
       /\ r.summary.total = Len(testCaseResults)
       /\ r.summary.total = r.summary.passed + r.summary.failed
                              + r.summary.notFound + r.summary.errors
       /\ r.summary.passed = Cardinality(ResultsWith("PASS"))
       /\ r.summary.notFound = Cardinality(ResultsWith("NOT_FOUND"))
       /\ (r.overallResult = "no_tests") <=> (testCaseResults = <<>>)
       /\ (r.overallResult = "fail") <=> (ResultsWith("FAIL") \cup ResultsWith("ERROR") # {})
       /\ (r.overallResult = "pass") <=>
            (testCaseResults # <<>> /\ ResultsWith("FAIL") \cup ResultsWith("ERROR") = {})

\* a passed test case and one without a test: the overall result is 'pass'
C24_Witness ==
  /\ pc = "reported"
  /\ Len(testCaseResults) = 2
  /\ testCaseResults[1].status = "PASS"
  /\ testCaseResults[2].status = "NOT_FOUND"
  /\ report[1].summary.notFound = 1
  /\ report[1].overallResult = "pass"

C27_FilterKeepsMatchedTests ==
  (/\ pc = "selected"
   /\ \E i \in 1..Len(testCases) : EndsWith(name, testCases[i].summary))
    => matched

\* the full name ends with the summary of the second of two test cases
C27_Witness ==
  /\ pc = "selected"
  /\ Len(testCases) = 2
  /\ testCases[1].summary = <<".">>
  /\ testCases[2].summary = <<"a", "b">>
  /\ name = <<"|", "a", "b">>
  /\ pattern = <<"(", "\\", ".", "$", ")", "|", "(", "a", "b", "$", ")">>
  /\ matched

\* the comments a run has attempted, in order
Comments == SelectSeq(trace, LAMBDA e : e.op = "addComment")

\* the keys of the test cases whose status is PASS, in test-case order
PassedKeys ==
  LET keep == {i \in 1..Len(testCaseResults) : testCaseResults[i].status = "PASS"}
  IN [k \in 1..Cardinality(keep) |->
        testCaseResults[CHOOSE i \in keep : Cardinality({j \in keep : j < i}) = k - 1].testCase.jiraKey]

\* the exit code the results of a finished test run give
ExitCodeOfResults ==
  IF command = "run"
  THEN (IF SomeStatus({"FAIL", "ERROR"}) THEN 1 ELSE 0)
  ELSE (IF jestResult.summary.failed > 0 THEN 1 ELSE 0)

\* C26 as stated: after a non-dry run with commenting enabled exactly one
\* comment is attempted on the issue of each PASS test case, in test-case
\* order, and then exactly one on the parent ticket; a failed comment stops
\* neither the remaining comments nor the report and does not change the
\* exit code; with commenting disabled or in a dry run no comment is attempted
C26_CommentsOfARun ==
  /\ (~runOptions.comment \/ runOptions.dry) => Comments = <<>>
  /\ (/\ pc = "done"
      /\ runOptions.comment
      /\ ~runOptions.dry
      /\ CountOp("reconcile") = 1) =>
       /\ [i \in 1..Len(Comments) |-> Comments[i].key] = PassedKeys \o <<ParentKey>>
       /\ CountOp("report") = 1
       /\ report # <<>>
       /\ exitCode = ExitCodeOfResults

\* C28: in no run of runCommand or runFileCommand is the runner invoked with
\* an empty name pattern: an empty collected list returns before the runner
\* step, and a non-empty list in title mode gives a pattern of at least one
\* character
C28_RunnerPatternNotEmpty ==
  /\ CountOp("runner") >= 1 => Len(pattern) >= 1
  /\ (command = "run" /\ testCases = <<>>) => CountOp("runner") = 0
  /\ (command = "run" /\ runOptions.mode = "title" /\ CountOp("pattern") = 1) =>
       /\ testCases # <<>>
       /\ Len(matchResult.pattern) >= 1

\* a title-mode run of two test cases has invoked the runner with the
\* alternation of their patterns
C28_Witness ==
  /\ command = "run"
  /\ runOptions.mode = "title"
  /\ CountOp("runner") = 1
  /\ Len(testCases) = 2
  /\ pattern = <<"(", "a", "$", ")", "|", "(", "b", "$", ")">>

====
